---- MODULE Spec2Model ----
(***************************************************************************)
(* Flash-loan protocol of the native-flash-loan-program: the Loan and      *)
(* Repay instruction handlers, executed by the host one instruction at a   *)
(* time inside an atomic transaction.                                      *)
(*                                                                         *)
(* Unsigned integers are little-endian sequences of bytes, as they lie in  *)
(* instruction data and account data: a u64 is 8 bytes, a u128 16 bytes.   *)
(***************************************************************************)
EXTENDS Integers, Naturals, Sequences, FiniteSets, TLC

\* ------------------------------------------------------------------------
\* Bounds of the model
\* ------------------------------------------------------------------------
MaxIx == 3          \* instructions per transaction
MaxTokenAccounts == 6   \* length of a token-account list handed to Loan
MaxClock == 1       \* the Clock sysvar reads 0..MaxClock
MaxFunds == 2       \* tokens of each mint the user starts with
MaxSupply == 2      \* largest supply of mint_lp

\* ------------------------------------------------------------------------
\* Program constants
\* ------------------------------------------------------------------------
MAX_LOAN_PAIRS == 10
LOAN_DISCRIMINATOR == 0
REPAY_DISCRIMINATOR == 1
BPS_DENOMINATOR == 10000
FIXED_LOAN_ACCOUNTS == 6
FIXED_REPAY_ACCOUNTS == 3
REPAY_META_OFFSET == 4
FEE_LIMIT == 10000
CURVE_PRECISION == 6

\* ------------------------------------------------------------------------
\* Little-endian byte arithmetic
\* ------------------------------------------------------------------------
Zeros(n) == [i \in 1..n |-> 0]

\* the first n bytes of a, padded with zero bytes: "as uN"
Fit(a, n) == [i \in 1..n |-> IF i <= Len(a) THEN a[i] ELSE 0]

\* a does not fit n bytes
Overflows(a, n) == \E i \in 1..Len(a) : i > n /\ a[i] # 0

RECURSIVE BytesOf(_, _)
BytesOf(v, n) == IF n = 0 THEN <<>> ELSE <<v % 256>> \o BytesOf(v \div 256, n - 1)

U16(v) == BytesOf(v, 2)
U64(v) == BytesOf(v, 8)
U64_MAX == [i \in 1..8 |-> 255]
TwoTo63 == <<0, 0, 0, 0, 0, 0, 0, 128>>

RECURSIVE AddC(_, _, _)
\* a + b + c for a, b of equal length; one byte longer than a
AddC(a, b, c) ==
    IF a = <<>> THEN <<c>>
    ELSE LET s == Head(a) + Head(b) + c
         IN  <<s % 256>> \o AddC(Tail(a), Tail(b), s \div 256)

RECURSIVE SubB(_, _, _)
\* a - b - c for a, b of equal length, a >= b + c
SubB(a, b, c) ==
    IF a = <<>> THEN <<>>
    ELSE LET d == Head(a) - Head(b) - c
         IN  IF d < 0 THEN <<d + 256>> \o SubB(Tail(a), Tail(b), 1)
             ELSE <<d>> \o SubB(Tail(a), Tail(b), 0)

RECURSIVE MulC(_, _, _)
\* a * k + c for a small multiplier k
MulC(a, k, c) ==
    IF a = <<>>
    THEN IF c = 0 THEN <<>> ELSE <<c % 256>> \o MulC(<<>>, k, c \div 256)
    ELSE LET s == Head(a) * k + c
         IN  <<s % 256>> \o MulC(Tail(a), k, s \div 256)

RECURSIVE DivR(_, _)
\* quotient and remainder of a by a small divisor d
DivR(a, d) ==
    IF a = <<>> THEN [q |-> <<>>, r |-> 0]
    ELSE LET h == DivR(Tail(a), d)
             cur == h.r * 256 + Head(a)
         IN  [q |-> <<cur \div d>> \o h.q, r |-> cur % d]

RECURSIVE Less(_, _)
\* a < b for a, b of equal length
Less(a, b) ==
    IF a = <<>> THEN FALSE
    ELSE LET n == Len(a)
         IN  IF a[n] # b[n] THEN a[n] < b[n]
             ELSE Less(SubSeq(a, 1, n - 1), SubSeq(b, 1, n - 1))

\* u64::checked_add
CheckedAdd64(a, b) ==
    LET s == AddC(a, b, 0)
    IN  [ok |-> s[9] = 0, val |-> Fit(s, 8)]

\* u64::checked_mul by a u16 widened to u64
CheckedMul64(a, k) ==
    LET p == MulC(a, k, 0)
    IN  [ok |-> ~Overflows(p, 8), val |-> Fit(p, 8)]

\* u64::checked_div by a non-zero constant
Div64(a, d) == DivR(a, d).q

\* the u64 words a byte buffer holds when it is reinterpreted as &[u64]
RECURSIVE WordsOf(_)
WordsOf(data) ==
    IF Len(data) < 8 THEN <<>>
    ELSE <<SubSeq(data, 1, 8)>> \o WordsOf(SubSeq(data, 9, Len(data)))

RECURSIVE Concat(_)
Concat(ss) == IF ss = <<>> THEN <<>> ELSE Head(ss) \o Concat(Tail(ss))

\* ------------------------------------------------------------------------
\* Accounts
\* ------------------------------------------------------------------------
ProtocolAccts == {"P1", "P2", "P3", "P4", "P5", "P6", "P7", "P8", "P9", "P10", "P11"}
BorrowerAccts == {"B1", "B2"}
TokenAccts == ProtocolAccts \cup BorrowerAccts
LoanAccts == {"L1", "L2"}

\* find_program_address over the seeds "protocol", fee, bump
PdaKey(fee, bump) ==
    IF bump # 255 THEN "pda_other"
    ELSE IF fee = 50 THEN "pda_50"
    ELSE "pda_other"

\* the authority recorded in each token account
owner == [a \in TokenAccts |-> IF a \in ProtocolAccts THEN "pda_50" ELSE "borrower"]

VARIABLES
    amount,           \* token account -> balance (u64)
    loan_data,        \* loan account -> entries written by Loan (<<>>: empty account)
    forged,           \* name of the instruction list stored in the account "forged"
    FEE,              \* the crate's fee constant used by Repay
    tx,               \* names of the instructions of the transaction in flight
    pc,               \* index of the next instruction of tx
    status,           \* "idle", "running", "committed", "failed"
    err,              \* error of the failed instruction
    pre_amount,       \* balances when the transaction started
    pre_loan_data,    \* loan accounts when the transaction started
    cpi_log,          \* token transfers made by Loan and Repay in this transaction
    loan_log,         \* per executed Loan: the borrower balances it read
    repay_log,        \* per executed Repay: the principals and fees it computed
    config,           \* <<>>: no Config account; <<c>>: the Config account of the pool
    tokens,           \* balances of the vaults and of the user, and the supply of mint_lp
    config_bump,      \* the bump find_program_address yields for the config seeds
    outcome,          \* the last pool instruction and its result
    token_accounts,   \* a token-account list handed to LoanAccounts::try_from
    checked           \* <<>>, or <<r>>: the result of Loan on token_accounts

loan_vars == <<amount, loan_data, forged, FEE, tx, pc, status, err,
               pre_amount, pre_loan_data, cpi_log, loan_log, repay_log>>

pool_vars == <<config, tokens, config_bump, outcome>>

list_vars == <<token_accounts, checked>>

vars == <<loan_vars, pool_vars, list_vars>>

\* ------------------------------------------------------------------------
\* Token program
\* ------------------------------------------------------------------------
\* Transfer of amt from one token account to another under an authority
\* that signs; bal is the balance of every token account
TokenTransfer(bal, from, to, authority, signs, amt) ==
    IF from \notin TokenAccts \/ to \notin TokenAccts THEN [ok |-> FALSE, bal |-> bal]
    ELSE IF ~signs \/ owner[from] # authority THEN [ok |-> FALSE, bal |-> bal]
    ELSE IF Less(bal[from], amt) THEN [ok |-> FALSE, bal |-> bal]
    ELSE IF from = to THEN [ok |-> TRUE, bal |-> bal]
    ELSE LET sum == CheckedAdd64(bal[to], amt)
         IN  IF ~sum.ok THEN [ok |-> FALSE, bal |-> bal]
             ELSE [ok |-> TRUE,
                   bal |-> [bal EXCEPT ![from] = SubB(bal[from], amt, 0),
                                       ![to] = sum.val]]

\* ------------------------------------------------------------------------
\* Instructions sysvar
\* ------------------------------------------------------------------------
\* the instruction lists that Instructions::new_unchecked may expose for an
\* account: the sysvar holds the transaction; the forged account holds what
\* its owner wrote; a loan account is not laid out as an instruction list:
\* an empty one gives no list (<<>>), one with entries gives no list or
\* whatever the bytes at and behind it decode to, since the count and the
\* offset are then read from the key of the first entry; a second
\* caller-written account holds one entry of the shape Loan looks for,
\* naming the loan account L2
SysvarContents(acct, txn, fg, fgs, lds) ==
    IF acct = "sysvar" THEN {txn}
    ELSE IF acct = "forged" THEN {fg}
    ELSE IF acct = "forged_2" THEN {<<[program_id |-> "ID", data |-> <<REPAY_DISCRIMINATOR>>,
                                       accounts |-> <<"borrower", "L2">>]>>}
    ELSE IF acct \in LoanAccts /\ lds[acct] # <<>> THEN {<<>>} \cup fgs
    ELSE {<<>>}

\* ------------------------------------------------------------------------
\* Loan
\* ------------------------------------------------------------------------
\* accounts: borrower, protocol, loan, instruction_sysvar, token_program,
\* system_program, then the token accounts in (protocol, borrower) pairs
LoanTokenAccounts(accts) == SubSeq(accts, FIXED_LOAN_ACCOUNTS + 1, Len(accts))

\* a duplicate check that compares only neighbouring pairs
LoanAccountsTryFrom_Neighbours(accts, lds) ==
    IF Len(accts) < FIXED_LOAN_ACCOUNTS THEN "NotEnoughAccountKeys"
    ELSE LET toks == LoanTokenAccounts(accts)
             num_pairs == Len(toks) \div 2
         IN  IF Len(toks) % 2 # 0 \/ Len(toks) = 0 THEN "InvalidAccountData"
             ELSE IF accts[3] \notin LoanAccts \/ lds[accts[3]] # <<>> THEN "InvalidAccountData"
             ELSE IF \E i \in 0..(num_pairs - 2) : toks[i * 2 + 1] = toks[(i + 1) * 2 + 1]
                  THEN "InvalidAccountData"
             ELSE "Ok"

\* LoanAccounts::try_from; lds is the data of every loan account
LoanAccountsTryFrom(accts, lds) ==
    IF Len(accts) < FIXED_LOAN_ACCOUNTS THEN "NotEnoughAccountKeys"
    ELSE LET toks == LoanTokenAccounts(accts)
             num_pairs == Len(toks) \div 2
         IN  IF Len(toks) % 2 # 0 \/ Len(toks) = 0 THEN "InvalidAccountData"
             ELSE IF accts[3] \notin LoanAccts \/ lds[accts[3]] # <<>> THEN "InvalidAccountData"
             ELSE IF \E i \in 0..(num_pairs - 2) : \E j \in (i + 1)..(num_pairs - 1) :
                         toks[i * 2 + 1] = toks[j * 2 + 1]
                  THEN "InvalidAccountData"
             ELSE "Ok"

\* LoanInstructionData::try_from on the payload behind the discriminator
LoanInstructionDataTryFrom(payload) ==
    IF Len(payload) < 1 THEN [err |-> "InvalidInstructionData"]
    ELSE IF Len(payload) - 1 < 2 THEN [err |-> "InvalidInstructionData"]
    ELSE IF (Len(payload) - 3) % 8 # 0 THEN [err |-> "InvalidInstructionData"]
    ELSE [err |-> "Ok",
          bump |-> payload[1],
          fee |-> payload[2] + 256 * payload[3],
          amounts |-> WordsOf(SubSeq(payload, 4, Len(payload)))]

\* Loan::try_from
LoanTryFrom(ix, lds) ==
    LET a == LoanAccountsTryFrom(ix.accounts, lds)
        d == LoanInstructionDataTryFrom(Tail(ix.data))
    IN  IF a # "Ok" THEN [err |-> a]
        ELSE IF d.err # "Ok" THEN d
        ELSE IF Len(d.amounts) # Len(LoanTokenAccounts(ix.accounts)) \div 2
             THEN [err |-> "InvalidInstructionData"]
        ELSE d

\* a Loan that adds the fee product without dividing it by 10_000
BalanceWithFee_NoDiv(balance, amt, fee) ==
    LET m == CheckedMul64(amt, fee)
    IN  IF ~m.ok THEN [ok |-> FALSE, val |-> balance]
        ELSE CheckedAdd64(balance, m.val)

\* balance + amount * fee / 10_000 with checked steps
BalanceWithFee(balance, amt, fee) ==
    LET m == CheckedMul64(amt, fee)
    IN  IF ~m.ok THEN [ok |-> FALSE, val |-> balance]
        ELSE CheckedAdd64(balance, Div64(m.val, BPS_DENOMINATOR))

RECURSIVE LoanLoop(_, _, _, _)
\* the loop of Loan::process over the amounts, from pair i on; s carries the
\* balances, the entries written, the transfers made and the balances read
LoanLoop(ix, d, i, s) ==
    IF s.err # "Ok" \/ i > Len(d.amounts) THEN s
    ELSE LET toks == LoanTokenAccounts(ix.accounts)
             protocol_token_account == toks[(i - 1) * 2 + 1]
             borrower_token_account == toks[(i - 1) * 2 + 2]
             amt == d.amounts[i]
             balance == IF borrower_token_account \in TokenAccts
                        THEN s.bal[borrower_token_account] ELSE Zeros(8)
             balance_with_fee == BalanceWithFee(balance, amt, d.fee)
             t == TokenTransfer(s.bal, protocol_token_account, borrower_token_account,
                                ix.accounts[2], ix.accounts[2] = PdaKey(d.fee, d.bump), amt)
         IN  IF ~balance_with_fee.ok THEN [s EXCEPT !.err = "InvalidInstructionData"]
             ELSE IF ~t.ok THEN [s EXCEPT !.err = "TransferFailed"]
             ELSE LoanLoop(ix, d, i + 1,
                    [err |-> "Ok",
                     bal |-> t.bal,
                     entries |-> Append(s.entries,
                                   [protocol_token_account |-> protocol_token_account,
                                    balance |-> balance_with_fee.val]),
                     log |-> Append(s.log, [from |-> protocol_token_account,
                                            to |-> borrower_token_account,
                                            amount |-> amt]),
                     read |-> Append(s.read, balance)])

\* the check that looks for the Repay at every index of the list
RepayIntrospection_AnyIndex(content, loan_key) ==
    IF \E k \in 1..Len(content) :
          /\ content[k].program_id = "ID"
          /\ content[k].data[1] = REPAY_DISCRIMINATOR
          /\ content[k].accounts[2] = loan_key
    THEN "Ok"
    ELSE "InvalidInstructionData"

\* the check of Loan::process on the last instruction of the list
RepayIntrospection(content, loan_key) ==
    IF Len(content) = 0 THEN "InvalidInstructionData"
    ELSE LET instruction == content[Len(content)]
         IN  IF instruction.program_id # "ID" THEN "InvalidInstructionData"
             ELSE IF instruction.data[1] # REPAY_DISCRIMINATOR THEN "InvalidInstructionData"
             ELSE IF instruction.accounts[2] # loan_key THEN "InvalidInstructionData"
             ELSE "Ok"

\* Loan::try_from followed by Loan::process; content is the instruction
\* list read through the instruction_sysvar account
LoanProcess(ix, bal, lds, content) ==
    LET d == LoanTryFrom(ix, lds)
        s0 == [err |-> "Ok", bal |-> bal, entries |-> <<>>, log |-> <<>>, read |-> <<>>]
    IN  IF d.err # "Ok" THEN [s0 EXCEPT !.err = d.err]
        ELSE LET s == LoanLoop(ix, d, 1, s0)
             IN  IF s.err # "Ok" THEN s
                 ELSE [s EXCEPT !.err = RepayIntrospection(content, ix.accounts[3])]

\* ------------------------------------------------------------------------
\* Repay
\* ------------------------------------------------------------------------
\* accounts: borrower, instruction_sysvar, token_program, then the token
\* accounts in (protocol, borrower) pairs
RepayRest(accts) == SubSeq(accts, FIXED_REPAY_ACCOUNTS + 1, Len(accts))

\* RepayAccounts::try_from
RepayAccountsTryFrom(accts) ==
    IF Len(accts) < FIXED_REPAY_ACCOUNTS THEN "NotEnoughAccountKeys"
    ELSE LET rest == RepayRest(accts)
         IN  IF Len(rest) % 2 # 0 \/ Len(rest) \div 2 > MAX_LOAN_PAIRS \/ Len(rest) < 2
             THEN "InvalidAccountData"
             ELSE "Ok"

\* rest.chunks(2): the pairs try_from stores in its local array
PairsOf(rest) == [i \in 1..(Len(rest) \div 2) |-> <<rest[2 * i - 1], rest[2 * i]>>]

\* loan_data is a slice over an array local to try_from, which is gone when
\* process runs: process may find the pairs as stored, find the slots
\* overwritten with references to other accounts of the instruction, or
\* fault on them (<<>>)
DanglingViews(rest) ==
    LET S == {rest[i] : i \in 1..Len(rest)}
    IN  {<<>>} \cup [1..(Len(rest) \div 2) -> S \X S]

\* (amount as u128 * FEE / 10_000) as u64
RepayFee(amt, fee_const) ==
    LET p == MulC(Fit(amt, 16), fee_const, 0)
    IN  [ok |-> ~Overflows(p, 16), val |-> Fit(Div64(Fit(p, 16), BPS_DENOMINATOR), 8)]

RECURSIVE RepayLoop(_, _, _, _, _, _)
\* the loop of Repay::process over loan_data zipped with the amounts
RepayLoop(ix, seen, instruction, amounts, i, s) ==
    IF s.err # "Ok" \/ i > Len(seen) \/ i > Len(amounts) THEN s
    ELSE LET protocol_key == instruction.accounts[REPAY_META_OFFSET + (i - 1) * 2 + 1]
             borrower_key == instruction.accounts[REPAY_META_OFFSET + 1 + (i - 1) * 2 + 1]
             amt == amounts[i]
             fee == RepayFee(amt, s.fee_const)
             sum == AddC(amt, fee.val, 0)
             t == TokenTransfer(s.bal, seen[i][2], seen[i][1], ix.accounts[1],
                                ix.accounts[1] = "borrower", Fit(sum, 8))
         IN  IF seen[i][1] # protocol_key \/ seen[i][2] # borrower_key
             THEN [s EXCEPT !.err = "InvalidAccountData"]
             ELSE IF ~fee.ok THEN [s EXCEPT !.err = "InvalidAccountData"]
             ELSE IF sum[9] # 0 /\ s.checks THEN [s EXCEPT !.err = "Panic"]
             ELSE IF ~t.ok THEN [s EXCEPT !.err = "TransferFailed"]
             ELSE RepayLoop(ix, seen, instruction, amounts, i + 1,
                    [s EXCEPT !.bal = t.bal,
                              !.log = Append(s.log, [from |-> seen[i][2], to |-> seen[i][1],
                                                     amount |-> Fit(sum, 8)]),
                              !.principal = Append(s.principal, amt),
                              !.fees = Append(s.fees, fee.val)])

\* Repay::try_from followed by Repay::process; content is the instruction
\* list read through the instruction_sysvar account, seen the pairs found
\* behind loan_data
RepayProcess(ix, bal, content, seen, fee_const, checks) ==
    LET a == RepayAccountsTryFrom(ix.accounts)
        s0 == [err |-> "Ok", bal |-> bal, log |-> <<>>, principal |-> <<>>, fees |-> <<>>,
               fee_const |-> fee_const, checks |-> checks]
    IN  IF a # "Ok" THEN [s0 EXCEPT !.err = a]
        ELSE IF Len(content) = 0 THEN [s0 EXCEPT !.err = "InvalidInstructionData"]
        ELSE LET instruction == content[1]
                 n == Len(RepayRest(ix.accounts)) \div 2
                 amounts == WordsOf(instruction.data)
             IN  IF instruction.program_id # "ID" THEN [s0 EXCEPT !.err = "InvalidInstructionData"]
                 ELSE IF Len(instruction.accounts) < REPAY_META_OFFSET
                      THEN [s0 EXCEPT !.err = IF checks THEN "Panic" ELSE "InvalidAccountData"]
                 ELSE IF n * 2 # Len(instruction.accounts) - REPAY_META_OFFSET
                      THEN [s0 EXCEPT !.err = "InvalidAccountData"]
                 ELSE IF Len(amounts) = 0 THEN s0
                 ELSE IF seen = <<>> THEN [s0 EXCEPT !.err = "AccessViolation"]
                 ELSE RepayLoop(ix, seen, instruction, amounts, 1, s0)

\* ------------------------------------------------------------------------
\* Transactions
\* ------------------------------------------------------------------------
TOKEN_TRANSFER_TAG == 3

LoanIx(bump, fee, amounts, loan, sv, a5, a6, toks) ==
    [program_id |-> "ID",
     data |-> <<LOAN_DISCRIMINATOR, bump>> \o U16(fee) \o Concat(amounts),
     accounts |-> <<"borrower", PdaKey(fee, bump), loan, sv, a5, a6>> \o toks]

RepayIx(sv, rest) ==
    [program_id |-> "ID",
     data |-> <<REPAY_DISCRIMINATOR>>,
     accounts |-> <<"borrower", sv, "TOKEN">> \o rest]

TransferIx(from, to, amt) ==
    [program_id |-> "TOKEN",
     data |-> <<TOKEN_TRANSFER_TAG>> \o amt,
     accounts |-> <<from, to, "borrower">>]

ElevenPairs == <<"P1", "B1", "P2", "B1", "P3", "B1", "P4", "B1", "P5", "B1", "P6", "B1",
                 "P7", "B1", "P8", "B1", "P9", "B1", "P10", "B1", "P11", "B1">>

\* the instructions a transaction is built from, by name
LoanIxs ==
    [loan_500_sysvar |->
        LoanIx(255, 50, <<U64(500)>>, "L1", "sysvar", "TOKEN", "SYSTEM", <<"P1", "B1">>),
     loan_500_forged |->
        LoanIx(255, 50, <<U64(500)>>, "L1", "forged", "TOKEN", "SYSTEM", <<"P1", "B1">>),
     loan_vault_slots |->
        LoanIx(255, 50, <<U64(500)>>, "L1", "sysvar", "P2", "B1", <<"P1", "B1">>),
     loan_overflow_add |->
        LoanIx(255, 50, <<U64(500)>>, "L1", "forged", "TOKEN", "SYSTEM", <<"P1", "B2">>),
     loan_overflow_mul |->
        LoanIx(255, 50, <<U64(500), TwoTo63>>, "L1", "forged", "TOKEN", "SYSTEM",
               <<"P1", "B1", "P2", "B1">>),
     loan_11_pairs |->
        LoanIx(255, 50, [i \in 1..11 |-> U64(1)], "L1", "sysvar", "TOKEN", "SYSTEM",
               ElevenPairs)]

RepayIxs ==
    [repay_sysvar |-> RepayIx("sysvar", <<"P1", "B1">>),
     repay_forged |-> RepayIx("forged", <<"P1", "B1">>),
     repay_loan_account |-> RepayIx("L1", <<"P1", "B1">>),
     repay_two_pairs |-> RepayIx("sysvar", <<"P2", "B1", "P1", "B1">>)]

TransferIxs ==
    [transfer_502 |-> TransferIx("B1", "P1", U64(502))]

\* a Loan of 100 from P2 that names the loan account L2 and a second
\* caller-written account in place of the instructions sysvar
SecondLoanIxs ==
    [loan_100_second |->
        LoanIx(255, 50, <<U64(100)>>, "L2", "forged_2", "TOKEN", "SYSTEM", <<"P2", "B1">>)]

IxNames == DOMAIN LoanIxs \cup DOMAIN RepayIxs \cup DOMAIN TransferIxs

Instr ==
    [n \in IxNames \cup DOMAIN SecondLoanIxs |->
        IF n \in DOMAIN LoanIxs THEN LoanIxs[n]
        ELSE IF n \in DOMAIN RepayIxs THEN RepayIxs[n]
        ELSE IF n \in DOMAIN TransferIxs THEN TransferIxs[n]
        ELSE SecondLoanIxs[n]]

TxSet == UNION {[1..n -> IxNames] : n \in 1..MaxIx}

\* the instruction list the sysvar account holds for a transaction
TxContent(txn) == [i \in 1..Len(txn) |-> Instr[txn[i]]]

\* what the owner of the account "forged" may write into it: an instruction
\* list whose first entry has the shape Repay reads and whose last entry has
\* the shape Loan looks for
ForgedView(word) ==
    [program_id |-> "ID", data |-> word,
     accounts |-> <<"borrower", "pda_50", "L1", "forged", "P1", "B1">>]

ForgedRepay(loan) ==
    [program_id |-> "ID", data |-> <<REPAY_DISCRIMINATOR>>, accounts |-> <<"borrower", loan>>]

ForgedLists ==
    [principal_500 |-> <<ForgedView(U64(500)), ForgedRepay("L1")>>,
     principal_max |-> <<ForgedView(U64_MAX), ForgedRepay("L1")>>]

ForgedSet == {ForgedLists[n] : n \in DOMAIN ForgedLists}

FeeConsts == {50, 500}

InitialBalances ==
    {[a \in TokenAccts |-> IF a \in ProtocolAccts THEN U64(1000)
                           ELSE IF a = "B2" THEN U64_MAX ELSE b1] :
        b1 \in {U64(100), TwoTo63}}

\* the mints a pool may trade
Mints == {"MX", "MY"}

\* no pool, no token held, no pool instruction run yet
PoolQuiet ==
    /\ config = <<>>
    /\ tokens = [vault |-> [m \in Mints |-> 0], user |-> [m \in Mints |-> 0],
                 user_lp |-> 0, supply |-> 0]
    /\ config_bump = 255
    /\ outcome = [op |-> "none", err |-> "Ok", signer |-> "nobody"]

\* no token-account list under check
ListQuiet ==
    /\ token_accounts = <<>>
    /\ checked = <<>>

Init ==
    /\ PoolQuiet
    /\ ListQuiet
    /\ amount \in InitialBalances
    /\ loan_data = [l \in LoanAccts |-> <<>>]
    /\ forged \in DOMAIN ForgedLists
    /\ FEE \in FeeConsts
    /\ tx = <<>>
    /\ pc = 1
    /\ status = "idle"
    /\ err = "Ok"
    /\ pre_amount = amount
    /\ pre_loan_data = loan_data
    /\ cpi_log = <<>>
    /\ loan_log = <<>>
    /\ repay_log = <<>>

\* a client submits a transaction: the host snapshots the accounts
Submit ==
    /\ status = "idle"
    /\ \E t \in TxSet : tx' = t
    /\ pc' = 1
    /\ status' = "running"
    /\ pre_amount' = amount
    /\ pre_loan_data' = loan_data
    /\ UNCHANGED pool_vars /\ UNCHANGED list_vars /\ UNCHANGED <<amount, loan_data, forged, FEE, err, cpi_log,
                   loan_log, repay_log>>

\* the host discards every effect of the transaction when an instruction
\* fails
Fail(e) ==
    /\ status' = "failed"
    /\ err' = e
    /\ amount' = pre_amount
    /\ loan_data' = pre_loan_data
    /\ cpi_log' = <<>>
    /\ UNCHANGED pool_vars /\ UNCHANGED list_vars /\ UNCHANGED <<forged, FEE, tx, pc, pre_amount, pre_loan_data,
                   loan_log, repay_log>>

\* a transfer of a handler, with the index of the instruction that made it
Tagged(t, i) == [ix |-> i, from |-> t.from, to |-> t.to, amount |-> t.amount]

AccountAt(ix, k) == IF k <= Len(ix.accounts) THEN ix.accounts[k] ELSE "none"

\* the entrypoint's dispatch on the program and the first data byte
IsLoan(ix) == ix.program_id = "ID" /\ ix.data[1] = LOAN_DISCRIMINATOR
IsRepay(ix) == ix.program_id = "ID" /\ ix.data[1] = REPAY_DISCRIMINATOR
IsTransfer(ix) == ix.program_id = "TOKEN" /\ ix.data[1] = TOKEN_TRANSFER_TAG

ExecLoan ==
    /\ status = "running"
    /\ pc <= Len(tx)
    /\ IsLoan(Instr[tx[pc]])
    /\ \E content \in SysvarContents(AccountAt(Instr[tx[pc]], 4), TxContent(tx), ForgedLists[forged], ForgedSet, loan_data) :
       \E r \in {LoanProcess(Instr[tx[pc]], amount, loan_data, content)} :
             IF r.err # "Ok" THEN Fail(r.err)
             ELSE /\ amount' = r.bal
                  /\ loan_data' = [loan_data EXCEPT ![Instr[tx[pc]].accounts[3]] = r.entries]
                  /\ cpi_log' = cpi_log \o [k \in 1..Len(r.log) |-> Tagged(r.log[k], pc)]
                  /\ loan_log' = Append(loan_log, [index |-> pc, read |-> r.read])
                  /\ pc' = pc + 1
                  /\ UNCHANGED pool_vars /\ UNCHANGED list_vars /\ UNCHANGED <<forged, FEE, tx, status, err,
                                 pre_amount, pre_loan_data, repay_log>>

ExecRepay ==
    /\ status = "running"
    /\ pc <= Len(tx)
    /\ IsRepay(Instr[tx[pc]])
    /\ \E content \in SysvarContents(AccountAt(Instr[tx[pc]], 2), TxContent(tx), ForgedLists[forged], ForgedSet, loan_data) :
       \E seen \in IF RepayAccountsTryFrom(Instr[tx[pc]].accounts) = "Ok"
                   THEN DanglingViews(RepayRest(Instr[tx[pc]].accounts)) ELSE {<<>>} :
       \E overflow_checks \in BOOLEAN :
       \E r \in {RepayProcess(Instr[tx[pc]], amount, content, seen, FEE, overflow_checks)} :
             IF r.err # "Ok" THEN Fail(r.err)
             ELSE /\ amount' = r.bal
                  /\ cpi_log' = cpi_log \o [k \in 1..Len(r.log) |-> Tagged(r.log[k], pc)]
                  /\ repay_log' = Append(repay_log,
                        [index |-> pc, principal |-> r.principal, fees |-> r.fees])
                  /\ pc' = pc + 1
                  /\ UNCHANGED pool_vars /\ UNCHANGED list_vars /\ UNCHANGED <<loan_data, forged, FEE, tx, status, err,
                                 pre_amount, pre_loan_data, loan_log>>

\* a token-program transfer the borrower places in the transaction
ExecTransfer ==
    /\ status = "running"
    /\ pc <= Len(tx)
    /\ IsTransfer(Instr[tx[pc]])
    /\ LET ix == Instr[tx[pc]]
           t == TokenTransfer(amount, ix.accounts[1], ix.accounts[2], ix.accounts[3],
                              ix.accounts[3] = "borrower", SubSeq(ix.data, 2, 9))
       IN  IF ~t.ok THEN Fail("TransferFailed")
           ELSE /\ amount' = t.bal
                /\ pc' = pc + 1
                /\ UNCHANGED pool_vars /\ UNCHANGED list_vars /\ UNCHANGED <<loan_data, forged, FEE, tx, status, err,
                               pre_amount, pre_loan_data, cpi_log, loan_log, repay_log>>

\* every instruction succeeded: the host commits
Commit ==
    /\ status = "running"
    /\ pc > Len(tx)
    /\ status' = "committed"
    /\ UNCHANGED pool_vars /\ UNCHANGED list_vars /\ UNCHANGED <<amount, loan_data, forged, FEE, tx, pc, err,
                   pre_amount, pre_loan_data, cpi_log, loan_log, repay_log>>

Next == Submit \/ ExecLoan \/ ExecRepay \/ ExecTransfer \/ Commit

Spec == Init /\ [][Next]_vars

\* the transactions built from two Loans that name different loan accounts,
\* a Repay and a transfer
TwoLoanNames == {"loan_500_forged", "loan_100_second", "repay_forged", "transfer_502"}

TwoLoanTxSet == UNION {[1..n -> TwoLoanNames] : n \in 1..MaxIx}

\* a client submits one of them
SubmitTwoLoans ==
    /\ status = "idle"
    /\ \E t \in TwoLoanTxSet : tx' = t
    /\ pc' = 1
    /\ status' = "running"
    /\ pre_amount' = amount
    /\ pre_loan_data' = loan_data
    /\ UNCHANGED pool_vars /\ UNCHANGED list_vars
    /\ UNCHANGED <<amount, loan_data, forged, FEE, err, cpi_log, loan_log, repay_log>>

NextTwoLoans == SubmitTwoLoans \/ ExecLoan \/ ExecRepay \/ ExecTransfer \/ Commit

SpecTwoLoans == Init /\ [][NextTwoLoans]_vars

TypeOK ==
    /\ status \in {"idle", "running", "committed", "failed"}
    /\ pc \in 1..(MaxIx + 1)

\* ------------------------------------------------------------------------
\* Loan on a token-account list
\* ------------------------------------------------------------------------
\* no transaction in flight: the state the flash-loan accounts rest in
LoanQuiet ==
    /\ amount = [a \in TokenAccts |-> IF a \in ProtocolAccts THEN U64(1000) ELSE U64(100)]
    /\ loan_data = [l \in LoanAccts |-> <<>>]
    /\ forged = "principal_500"
    /\ FEE \in {50}
    /\ tx = <<>>
    /\ pc = 1
    /\ status = "idle"
    /\ err = "Ok"
    /\ pre_amount = amount
    /\ pre_loan_data = loan_data
    /\ cpi_log = <<>>
    /\ loan_log = <<>>
    /\ repay_log = <<>>

\* the keys a token-account list is drawn from
ListKeys == {"P1", "P2", "P3", "B1"}

TokenAccountLists == UNION {[1..n -> ListKeys] : n \in 0..MaxTokenAccounts}

\* a Loan of 1 per pair on the list, given an instruction list that holds
\* the Repay it looks for
ListLoan(toks) ==
    LoanIx(255, 50, [i \in 1..(Len(toks) \div 2) |-> U64(1)], "L1", "forged",
           "TOKEN", "SYSTEM", toks)

ListInit ==
    /\ LoanQuiet
    /\ PoolQuiet
    /\ token_accounts \in TokenAccountLists
    /\ checked = <<>>

\* Loan::try_from and Loan::process run on the list
CheckList ==
    /\ checked = <<>>
    /\ checked' = <<LoanProcess(ListLoan(token_accounts), amount, loan_data,
                                ForgedLists[forged])>>
    /\ UNCHANGED <<token_accounts, loan_vars, pool_vars>>

ListNext == CheckList

SpecList == ListInit /\ [][ListNext]_vars

\* ------------------------------------------------------------------------
\* Pool: accounts and addresses
\* ------------------------------------------------------------------------
\* pinocchio_system::ID, the authority of a pool nobody administers
SYSTEM_ID == "system"

\* the identities that submit administrative instructions
Signers == {"admin", "mallory"}

\* find_program_address over b"config", seed, mint_x, mint_y: the address
\* of the Config account
ConfigKey(seed, mint_x, mint_y) ==
    [pda |-> "config", seed |-> seed, mint_x |-> mint_x, mint_y |-> mint_y]

\* the bump find_program_address returns with an address; b"lp" and b"auth"
\* are single addresses of the program
FindBump(pda) == IF pda = "config" THEN config_bump ELSE 255

\* the associated token account of a wallet for a mint
Ata(wallet, mint) == [wallet |-> wallet, mint |-> mint]

\* ------------------------------------------------------------------------
\* Initialize
\* ------------------------------------------------------------------------
\* InitializeAccounts::try_from
InitializeAccountsTryFrom(accts) ==
    IF ~accts.initializer_signs THEN "AccountNotSigner"
    ELSE IF accts.mint_x \notin Mints THEN "AccountNotOwnedByTokenProgram"
    ELSE IF accts.mint_y \notin Mints THEN "AccountNotOwnedByTokenProgram"
    ELSE "Ok"

\* InitializeInstructionData::try_from; authority is <<>> (None) or <<a>>
InitializeInstructionDataTryFrom(data) ==
    IF data.len = 8 + 2
    THEN IF data.fee >= FEE_LIMIT THEN [err |-> "InvalidInstructionData"]
         ELSE [err |-> "Ok", seed |-> data.seed, fee |-> data.fee, authority |-> <<>>]
    ELSE IF data.len = 8 + 2 + 32
    THEN IF data.fee >= FEE_LIMIT THEN [err |-> "InvalidInstructionData"]
         ELSE [err |-> "Ok", seed |-> data.seed, fee |-> data.fee,
               authority |-> <<data.authority>>]
    ELSE [err |-> "InvalidInstructionData"]

\* the two vaults created one after the other left unchecked
VaultsCreate_Idempotent(config_key, mint_x, mint_y) == "Ok"

\* the two calls of AssociatedTokenAccount::init for the vaults: Create of
\* the associated token program fails on an address that already holds a
\* token account, which the second call meets when the mints are the same
VaultsCreate(config_key, mint_x, mint_y) ==
    IF Ata(config_key, mint_y) = Ata(config_key, mint_x) THEN "IllegalOwner" ELSE "Ok"

\* Initialize::try_from: the checks of the addresses and the creation of
\* the Config account, of mint_lp and of the two vaults. An account is
\* created when its address is free; mint_lp, at the one address b"lp", is
\* free as long as no pool exists. cfg is the Config account in being.
InitializeTryFrom(data, accts, cfg) ==
    LET a == InitializeAccountsTryFrom(accts)
        d == InitializeInstructionDataTryFrom(data)
    IN  IF a # "Ok" THEN [err |-> a]
        ELSE IF d.err # "Ok" THEN d
        ELSE IF ConfigKey(d.seed, accts.mint_x, accts.mint_y) # accts.config
             THEN [err |-> "InvalidAccountOwner"]
        ELSE IF cfg # <<>> /\ cfg[1].key = accts.config THEN [err |-> "AccountAlreadyInUse"]
        ELSE IF accts.mint_lp # "lp" THEN [err |-> "InvalidAccountOwner"]
        ELSE IF cfg # <<>> THEN [err |-> "AccountAlreadyInUse"]
        ELSE IF VaultsCreate(accts.config, accts.mint_x, accts.mint_y) # "Ok"
             THEN [err |-> VaultsCreate(accts.config, accts.mint_x, accts.mint_y)]
        ELSE IF accts.authority # "auth" THEN [err |-> "InvalidAccountOwner"]
        ELSE [d EXCEPT !.err = "Ok"]

\* Initialize::process: set_inner on the new Config account
InitializeProcess(d, accts) ==
    [key |-> accts.config,
     seed |-> d.seed,
     authority |-> IF d.authority # <<>> THEN d.authority[1] ELSE SYSTEM_ID,
     mint_x |-> accts.mint_x,
     mint_y |-> accts.mint_y,
     fee |-> d.fee,
     locked |-> FALSE,
     config_bump |-> FindBump("config"),
     lp_bump |-> FindBump("lp"),
     auth_bump |-> FindBump("auth")]

\* ------------------------------------------------------------------------
\* UpdateConfig
\* ------------------------------------------------------------------------
\* UpdateConfigAccounts::try_from; cfg is the account passed as config
UpdateConfigAccountsTryFrom(signs, cfg) ==
    IF ~signs THEN "AccountNotSigner"
    ELSE IF cfg = <<>> THEN "AccountNotOwnedByProgram"
    ELSE "Ok"

\* no check of the authority at all
AuthorityCheck_None(stored, signer) == "Ok"

\* only the check for the pool nobody administers
AuthorityCheck_ImmutableOnly(stored, signer) ==
    IF stored = SYSTEM_ID THEN "Custom1" ELSE "Ok"

\* the two checks of the stored authority in UpdateConfig::try_from
AuthorityCheck(stored, signer) ==
    IF stored = SYSTEM_ID THEN "Custom1"
    ELSE IF stored # signer THEN "Custom1"
    ELSE "Ok"

\* UpdateConfig::try_from: the variant of the data by its length, then the
\* authority of the Config account against the signer
UpdateConfigTryFrom(authority, signs, data, cfg) ==
    LET a == UpdateConfigAccountsTryFrom(signs, cfg)
    IN  IF a # "Ok" THEN [err |-> a]
        ELSE IF data.len \notin {0, 32, 2} THEN [err |-> "InvalidInstructionData"]
        ELSE IF AuthorityCheck(cfg[1].authority, authority) # "Ok"
             THEN [err |-> AuthorityCheck(cfg[1].authority, authority)]
        ELSE [err |-> "Ok",
              variant |-> IF data.len = 0 THEN "None"
                          ELSE IF data.len = 32 THEN "Authority" ELSE "Fee"]

\* process_update_authority
ProcessUpdateAuthority(u, data, c) ==
    IF u.variant = "Authority" THEN [err |-> "Ok", config |-> [c EXCEPT !.authority = data.authority]]
    ELSE [err |-> "InvalidInstructionData", config |-> c]

\* process_update_fee that also clears the lock
ProcessUpdateFee_AlsoUnlocks(u, data, c) ==
    IF u.variant = "Fee"
    THEN [err |-> "Ok", config |-> [c EXCEPT !.fee = data.fee, !.locked = FALSE]]
    ELSE [err |-> "InvalidInstructionData", config |-> c]

\* process_update_fee
ProcessUpdateFee(u, data, c) ==
    IF u.variant = "Fee" THEN [err |-> "Ok", config |-> [c EXCEPT !.fee = data.fee]]
    ELSE [err |-> "InvalidInstructionData", config |-> c]

\* process_update_lock_status: set_locked is called without the value it
\* takes, so the flag it stores is any of the two
ProcessUpdateLockStatus(c, flag) ==
    [err |-> "Ok", config |-> [c EXCEPT !.locked = flag]]

\* process_remove_authority
ProcessRemoveAuthority(c) ==
    [err |-> "Ok", config |-> [c EXCEPT !.authority = SYSTEM_ID]]

\* ------------------------------------------------------------------------
\* Constant product curve
\* ------------------------------------------------------------------------
\* ConstantProduct::xy_deposit_amounts_from_l: every step is checked in
\* u128, which the amounts of the model never exceed
XyDepositAmountsFromL(x, y, l, a, precision) ==
    IF l = 0 \/ precision = 0 THEN [err |-> "Overflow", x |-> 0, y |-> 0]
    ELSE LET ratio == ((l + a) * precision) \div l
         IN  [err |-> "Ok",
              x |-> (x * ratio) \div precision - x,
              y |-> (y * ratio) \div precision - y]

\* ConstantProduct::xy_withdraw_amounts_from_l
XyWithdrawAmountsFromL(x, y, l, a, precision) ==
    IF a > l \/ l = 0 \/ precision = 0 THEN [err |-> "Overflow", x |-> 0, y |-> 0]
    ELSE LET ratio == ((l - a) * precision) \div l
         IN  [err |-> "Ok",
              x |-> x - (x * ratio) \div precision,
              y |-> y - (y * ratio) \div precision]

\* ------------------------------------------------------------------------
\* Deposit
\* ------------------------------------------------------------------------
\* a pool whose lock flag reads as never set
is_locked_never(c) == FALSE

\* Config::is_locked
is_locked(c) == c.locked

\* TokenAccount::check on the associated token account of the Config
\* account for a mint: the vaults are created with the pool
VaultCheck(mint, cfg) ==
    IF cfg = <<>> \/ mint \notin {cfg[1].mint_x, cfg[1].mint_y}
    THEN "AccountNotOwnedByTokenProgram"
    ELSE "Ok"

\* DepositAccounts::try_from
DepositAccountsTryFrom(accts, cfg) ==
    IF ~accts.user_signs THEN "AccountNotSigner"
    ELSE IF VaultCheck(accts.mint_x, cfg) # "Ok" THEN VaultCheck(accts.mint_x, cfg)
    ELSE IF VaultCheck(accts.mint_y, cfg) # "Ok" THEN VaultCheck(accts.mint_y, cfg)
    ELSE "Ok"

\* the decoding of Deposit that refuses an expiration equal to the time
DepositInstructionDataTryFrom_Strict(data, now) ==
    IF data.len # 8 + 8 + 8 + 8 THEN "InvalidInstructionData"
    ELSE IF data.amount = 0 THEN "InvalidInstructionData"
    ELSE IF data.max_x = 0 THEN "InvalidInstructionData"
    ELSE IF data.max_y = 0 THEN "InvalidInstructionData"
    ELSE IF data.expiration <= now THEN "InvalidInstructionData"
    ELSE "Ok"

\* DepositInstructionData::try_from
DepositInstructionDataTryFrom(data, now) ==
    IF data.len # 8 + 8 + 8 + 8 THEN "InvalidInstructionData"
    ELSE IF data.amount = 0 THEN "InvalidInstructionData"
    ELSE IF data.max_x = 0 THEN "InvalidInstructionData"
    ELSE IF data.max_y = 0 THEN "InvalidInstructionData"
    ELSE IF data.expiration < now THEN "InvalidInstructionData"
    ELSE "Ok"

\* Deposit::try_from without the comparison with max_x and max_y
DepositTryFrom_NoSlippage(data, accts, cfg, tok, now) ==
    LET a == DepositAccountsTryFrom(accts, cfg)
        d == DepositInstructionDataTryFrom(data, now)
        vault_x == tok.vault[accts.mint_x]
        vault_y == tok.vault[accts.mint_y]
        first == tok.supply = 0 /\ vault_x = 0 /\ vault_y = 0
        amounts == XyDepositAmountsFromL(vault_x, vault_y, tok.supply, data.amount,
                                         CURVE_PRECISION)
        x == IF first THEN data.max_x ELSE amounts.x
        y == IF first THEN data.max_y ELSE amounts.y
    IN  IF a # "Ok" THEN [err |-> a]
        ELSE IF d # "Ok" THEN [err |-> d]
        ELSE IF is_locked(cfg[1]) THEN [err |-> "UninitializedAccount"]
        ELSE IF cfg[1].mint_x # accts.mint_x THEN [err |-> "InvalidArgument"]
        ELSE IF cfg[1].mint_y # accts.mint_y THEN [err |-> "InvalidArgument"]
        ELSE IF ~first /\ amounts.err # "Ok" THEN [err |-> "InvalidArgument"]
        ELSE [err |-> "Ok", x |-> x, y |-> y]

\* Deposit::try_from; tok holds the balances and the supply of mint_lp
DepositTryFrom(data, accts, cfg, tok, now) ==
    LET a == DepositAccountsTryFrom(accts, cfg)
        d == DepositInstructionDataTryFrom(data, now)
        vault_x == tok.vault[accts.mint_x]
        vault_y == tok.vault[accts.mint_y]
        first == tok.supply = 0 /\ vault_x = 0 /\ vault_y = 0
        amounts == XyDepositAmountsFromL(vault_x, vault_y, tok.supply, data.amount,
                                         CURVE_PRECISION)
        x == IF first THEN data.max_x ELSE amounts.x
        y == IF first THEN data.max_y ELSE amounts.y
    IN  IF a # "Ok" THEN [err |-> a]
        ELSE IF d # "Ok" THEN [err |-> d]
        ELSE IF is_locked(cfg[1]) THEN [err |-> "UninitializedAccount"]
        ELSE IF cfg[1].mint_x # accts.mint_x THEN [err |-> "InvalidArgument"]
        ELSE IF cfg[1].mint_y # accts.mint_y THEN [err |-> "InvalidArgument"]
        ELSE IF ~first /\ amounts.err # "Ok" THEN [err |-> "InvalidArgument"]
        ELSE IF ~(x <= data.max_x /\ y <= data.max_y) THEN [err |-> "InvalidArgument"]
        ELSE [err |-> "Ok", x |-> x, y |-> y]

\* Deposit::process: two transfers from the user to the vaults, then MintTo
DepositProcess(d, data, accts, tok) ==
    IF tok.user[accts.mint_x] < d.x \/ tok.user[accts.mint_y] < d.y
    THEN [err |-> "InsufficientFunds", tokens |-> tok]
    ELSE [err |-> "Ok",
          tokens |-> [vault |-> [m \in Mints |->
                                   IF m = accts.mint_x THEN tok.vault[m] + d.x
                                   ELSE IF m = accts.mint_y THEN tok.vault[m] + d.y
                                   ELSE tok.vault[m]],
                      user |-> [m \in Mints |->
                                   IF m = accts.mint_x THEN tok.user[m] - d.x
                                   ELSE IF m = accts.mint_y THEN tok.user[m] - d.y
                                   ELSE tok.user[m]],
                      user_lp |-> tok.user_lp + data.amount,
                      supply |-> tok.supply + data.amount]]

\* ------------------------------------------------------------------------
\* Withdraw
\* ------------------------------------------------------------------------
\* WithdrawAccounts::try_from
WithdrawAccountsTryFrom(accts, cfg) ==
    IF ~accts.user_signs THEN "AccountNotSigner"
    ELSE IF VaultCheck(accts.mint_x, cfg) # "Ok" THEN VaultCheck(accts.mint_x, cfg)
    ELSE IF VaultCheck(accts.mint_y, cfg) # "Ok" THEN VaultCheck(accts.mint_y, cfg)
    ELSE "Ok"

\* WithdrawInstructionData::try_from
WithdrawInstructionDataTryFrom(data, now) ==
    IF data.len # 8 + 8 + 8 + 8 THEN "InvalidInstructionData"
    ELSE IF data.amount = 0 THEN "InvalidInstructionData"
    ELSE IF data.min_x = 0 THEN "InvalidInstructionData"
    ELSE IF data.min_y = 0 THEN "InvalidInstructionData"
    ELSE IF data.expiration < now THEN "InvalidInstructionData"
    ELSE "Ok"

\* Withdraw::try_from refusing what is below the minima
WithdrawTryFrom_BelowMinima(data, accts, cfg, tok, now) ==
    LET a == WithdrawAccountsTryFrom(accts, cfg)
        d == WithdrawInstructionDataTryFrom(data, now)
        vault_x == tok.vault[accts.mint_x]
        vault_y == tok.vault[accts.mint_y]
        all == tok.supply = data.amount
        amounts == XyWithdrawAmountsFromL(vault_x, vault_y, tok.supply, data.amount,
                                          CURVE_PRECISION)
        x == IF all THEN vault_x ELSE amounts.x
        y == IF all THEN vault_y ELSE amounts.y
    IN  IF a # "Ok" THEN [err |-> a]
        ELSE IF d # "Ok" THEN [err |-> d]
        ELSE IF is_locked(cfg[1]) THEN [err |-> "UninitializedAccount"]
        ELSE IF cfg[1].mint_x # accts.mint_x THEN [err |-> "InvalidArgument"]
        ELSE IF cfg[1].mint_y # accts.mint_y THEN [err |-> "InvalidArgument"]
        ELSE IF ~all /\ amounts.err # "Ok" THEN [err |-> "InvalidArgument"]
        ELSE IF ~(x >= data.min_x /\ y >= data.min_y) THEN [err |-> "InvalidArgument"]
        ELSE [err |-> "Ok", x |-> x, y |-> y]

\* Withdraw::try_from
WithdrawTryFrom(data, accts, cfg, tok, now) ==
    LET a == WithdrawAccountsTryFrom(accts, cfg)
        d == WithdrawInstructionDataTryFrom(data, now)
        vault_x == tok.vault[accts.mint_x]
        vault_y == tok.vault[accts.mint_y]
        all == tok.supply = data.amount
        amounts == XyWithdrawAmountsFromL(vault_x, vault_y, tok.supply, data.amount,
                                          CURVE_PRECISION)
        x == IF all THEN vault_x ELSE amounts.x
        y == IF all THEN vault_y ELSE amounts.y
    IN  IF a # "Ok" THEN [err |-> a]
        ELSE IF d # "Ok" THEN [err |-> d]
        ELSE IF is_locked(cfg[1]) THEN [err |-> "UninitializedAccount"]
        ELSE IF cfg[1].mint_x # accts.mint_x THEN [err |-> "InvalidArgument"]
        ELSE IF cfg[1].mint_y # accts.mint_y THEN [err |-> "InvalidArgument"]
        ELSE IF ~all /\ amounts.err # "Ok" THEN [err |-> "InvalidArgument"]
        ELSE IF ~(x <= data.min_x /\ y <= data.min_y) THEN [err |-> "InvalidArgument"]
        ELSE [err |-> "Ok", x |-> x, y |-> y]

\* the bump Withdraw::try_from keeps for the seeds of its signature
WithdrawBump(cfg) == cfg[1].auth_bump

\* the address that the seeds "config", seed, mint_x, mint_y and a bump
\* derive: the key of the Config account for the bump of that key only
SignedAddress(seed, mint_x, mint_y, bump) ==
    IF bump = FindBump("config") THEN ConfigKey(seed, mint_x, mint_y)
    ELSE [seed |-> seed, mint_x |-> mint_x, mint_y |-> mint_y, pda |-> "none"]

\* the second transfer written with the amount of the first
WithdrawProcess_SameAmount(d, data, accts, cfg, tok) ==
    IF SignedAddress(cfg[1].seed, accts.mint_x, accts.mint_y, WithdrawBump(cfg)) # cfg[1].key
    THEN [err |-> "MissingRequiredSignature", tokens |-> tok]
    ELSE IF tok.vault[accts.mint_x] < d.x \/ tok.vault[accts.mint_y] < d.x
    THEN [err |-> "InsufficientFunds", tokens |-> tok]
    ELSE IF tok.user_lp < data.amount THEN [err |-> "InsufficientFunds", tokens |-> tok]
    ELSE [err |-> "Ok",
          tokens |-> [vault |-> [m \in Mints |->
                                   IF m = accts.mint_x THEN tok.vault[m] - d.x
                                   ELSE IF m = accts.mint_y THEN tok.vault[m] - d.x
                                   ELSE tok.vault[m]],
                      user |-> [m \in Mints |->
                                   IF m = accts.mint_x THEN tok.user[m] + d.x
                                   ELSE IF m = accts.mint_y THEN tok.user[m] + d.x
                                   ELSE tok.user[m]],
                      user_lp |-> tok.user_lp - data.amount,
                      supply |-> tok.supply - data.amount]]

\* Withdraw::process: the Config account signs the two transfers out of the
\* vaults with the config seeds and auth_bump, which derive its address only
\* when auth_bump is its own bump; then Burn
WithdrawProcess(d, data, accts, cfg, tok) ==
    IF SignedAddress(cfg[1].seed, accts.mint_x, accts.mint_y, WithdrawBump(cfg)) # cfg[1].key
    THEN [err |-> "MissingRequiredSignature", tokens |-> tok]
    ELSE IF tok.vault[accts.mint_x] < d.x \/ tok.vault[accts.mint_y] < d.y
    THEN [err |-> "InsufficientFunds", tokens |-> tok]
    ELSE IF tok.user_lp < data.amount THEN [err |-> "InsufficientFunds", tokens |-> tok]
    ELSE [err |-> "Ok",
          tokens |-> [vault |-> [m \in Mints |->
                                   IF m = accts.mint_x THEN tok.vault[m] - d.x
                                   ELSE IF m = accts.mint_y THEN tok.vault[m] - d.y
                                   ELSE tok.vault[m]],
                      user |-> [m \in Mints |->
                                   IF m = accts.mint_x THEN tok.user[m] + d.x
                                   ELSE IF m = accts.mint_y THEN tok.user[m] + d.y
                                   ELSE tok.user[m]],
                      user_lp |-> tok.user_lp - data.amount,
                      supply |-> tok.supply - data.amount]]

\* ------------------------------------------------------------------------
\* Swap
\* ------------------------------------------------------------------------
\* SwapAccounts::try_from: each vault is checked to be the associated token
\* account of the Config account for the key of user
SwapAccountsTryFrom(accts, cfg) ==
    IF ~accts.user_signs THEN "AccountNotSigner"
    ELSE IF accts.mint_x \notin Mints \/ accts.mint_y \notin Mints
         THEN "AccountNotOwnedByTokenProgram"
    ELSE IF VaultCheck(accts.vault_x.mint, cfg) # "Ok" THEN "AccountNotOwnedByTokenProgram"
    ELSE IF accts.vault_x # Ata(cfg[1].key, accts.user) THEN "InvalidAssociatedTokenAddress"
    ELSE IF VaultCheck(accts.vault_y.mint, cfg) # "Ok" THEN "AccountNotOwnedByTokenProgram"
    ELSE IF accts.vault_y # Ata(cfg[1].key, accts.user) THEN "InvalidAssociatedTokenAddress"
    ELSE "Ok"

\* the length of is_x: u8, amount: u64, min: u64, expiration: i64
SWAP_DATA_LEN == 25

\* SwapInstructionData::try_from: data of size_of::<u16>() bytes is asked
\* for, and bytes 1..9, 9..17 and 17..25 of it are then read; a slice past
\* the end of the data panics
SwapInstructionDataTryFrom(data, now) ==
    IF data.len # 2 THEN "InvalidInstructionData"
    ELSE IF data.len < 9 THEN "Panic"
    ELSE IF data.amount = 0 THEN "InvalidInstructionData"
    ELSE IF data.len < 17 THEN "Panic"
    ELSE IF data.min = 0 THEN "InvalidInstructionData"
    ELSE IF data.len < 25 THEN "Panic"
    ELSE IF data.expiration < now THEN "InvalidInstructionData"
    ELSE IF data.is_x \notin {0, 1} THEN "InvalidInstructionData"
    ELSE "Ok"

\* Swap::try_from: the accounts, the data, then AssociatedTokenAccount::init
\* on the account of the user for the token bought: Create of the associated
\* token program fails on an account that exists, and the user of the model
\* holds an account of each mint. What comes after it is SwapChecks and
\* SwapProcess.
SwapTryFrom(data, accts, cfg, now) ==
    LET a == SwapAccountsTryFrom(accts, cfg)
        d == SwapInstructionDataTryFrom(data, now)
    IN  IF a # "Ok" THEN [err |-> a]
        ELSE IF d # "Ok" THEN [err |-> d]
        ELSE [err |-> "IllegalOwner"]

\* what ConstantProduct::init and ConstantProduct::swap of the dependency
\* constant_product_curve may hand back: an error, or the two legs of the
\* trade, deposit paid in by the user and withdraw paid out of the vault
SwapResults ==
    {[err |-> "CurveError", deposit |-> 0, withdraw |-> 0]}
    \cup {[err |-> "Ok", deposit |-> a, withdraw |-> b] : a \in 0..MaxFunds, b \in 0..MaxFunds}

\* the checks without the one of the two legs
SwapChecks_NoZeroCheck(swap_result, accts, cfg) ==
    IF is_locked(cfg[1]) THEN [err |-> "UninitializedAccount"]
    ELSE IF cfg[1].mint_x # accts.mint_x THEN [err |-> "InvalidArgument"]
    ELSE IF cfg[1].mint_y # accts.mint_y THEN [err |-> "InvalidArgument"]
    ELSE IF swap_result.err # "Ok" THEN [err |-> "Custom(1)"]
    ELSE IF ConfigKey(cfg[1].seed, accts.mint_x, accts.mint_y) # cfg[1].key
         THEN [err |-> "InvalidAccountOwner"]
    ELSE [err |-> "Ok", deposit |-> swap_result.deposit, withdraw |-> swap_result.withdraw]

\* Swap::try_from behind the creation of the account: the checks of the
\* Config account, the result of the curve, the two legs and the address of
\* the Config account
SwapChecks(swap_result, accts, cfg) ==
    IF is_locked(cfg[1]) THEN [err |-> "UninitializedAccount"]
    ELSE IF cfg[1].mint_x # accts.mint_x THEN [err |-> "InvalidArgument"]
    ELSE IF cfg[1].mint_y # accts.mint_y THEN [err |-> "InvalidArgument"]
    ELSE IF swap_result.err # "Ok" THEN [err |-> "Custom(1)"]
    ELSE IF swap_result.deposit = 0 \/ swap_result.withdraw = 0 THEN [err |-> "InvalidArgument"]
    ELSE IF ConfigKey(cfg[1].seed, accts.mint_x, accts.mint_y) # cfg[1].key
         THEN [err |-> "InvalidAccountOwner"]
    ELSE [err |-> "Ok", deposit |-> swap_result.deposit, withdraw |-> swap_result.withdraw]

\* the process that makes the transfer of the user only
SwapProcess_OneLeg(d, is_x, accts, tok) ==
    LET paid == IF is_x THEN accts.mint_x ELSE accts.mint_y
    IN  IF tok.user[paid] < d.deposit THEN [err |-> "InsufficientFunds", tokens |-> tok]
        ELSE [err |-> "Ok",
              tokens |-> [tok EXCEPT !.user[paid] = @ - d.deposit,
                                     !.vault[paid] = @ + d.deposit]]

\* Swap::process: Transfer of amounts.0 from the user to the vault of the
\* token sold, then Transfer of amounts.1 from the vault of the token bought
\* to the user, signed with the config seeds and config_bump
SwapProcess(d, is_x, accts, tok) ==
    LET paid == IF is_x THEN accts.mint_x ELSE accts.mint_y
        bought == IF is_x THEN accts.mint_y ELSE accts.mint_x
    IN  IF tok.user[paid] < d.deposit THEN [err |-> "InsufficientFunds", tokens |-> tok]
        ELSE IF tok.vault[bought] < d.withdraw THEN [err |-> "InsufficientFunds", tokens |-> tok]
        ELSE [err |-> "Ok",
              tokens |-> [tok EXCEPT !.user[paid] = @ - d.deposit,
                                     !.vault[paid] = @ + d.deposit,
                                     !.vault[bought] = @ - d.withdraw,
                                     !.user[bought] = @ + d.withdraw]]

\* ------------------------------------------------------------------------
\* Pool: the instructions as steps
\* ------------------------------------------------------------------------
\* what the last instruction was, who signed it and how it ended; an
\* instruction that ends in an error leaves every account as it was
Outcome(op, res, signer) == [op |-> op, err |-> res, signer |-> signer]

\* the data of Initialize that are submitted
InitializeData ==
    {[len |-> l, seed |-> 0, fee |-> f, authority |-> a] :
        l \in {8 + 2, 8 + 2 + 32, 8}, f \in {30, FEE_LIMIT}, a \in {"admin"}}

\* the accounts of Initialize
InitializeAccts(sg, mx, my, sd) ==
    [initializer_signs |-> sg, mint_x |-> mx, mint_y |-> my,
     config |-> ConfigKey(sd, mx, my), mint_lp |-> "lp", authority |-> "auth"]

\* the instructions Initialize that are submitted: the data with well
\* derived accounts for a pair of mints, one nobody signs and one whose
\* config account is derived from another seed
InitializeInputs ==
    {<<data, InitializeAccts(TRUE, "MX", my, 0)>> : data \in InitializeData, my \in Mints}
    \cup {<<data, InitializeAccts(FALSE, "MX", "MY", 0)>> :
            data \in {[len |-> 8 + 2, seed |-> 0, fee |-> 30, authority |-> "admin"]}}
    \cup {<<data, InitializeAccts(TRUE, "MX", "MY", 1)>> :
            data \in {[len |-> 8 + 2, seed |-> 0, fee |-> 30, authority |-> "admin"]}}

Initialize ==
    \E input \in InitializeInputs :
     \E data \in {input[1]}, accts \in {input[2]} :
      \E d \in {InitializeTryFrom(data, accts, config)} :
        /\ outcome' = Outcome("Initialize", d.err, "admin")
        /\ config' = IF d.err = "Ok" THEN <<InitializeProcess(d, accts)>> ELSE config
        /\ UNCHANGED <<tokens, config_bump>>
        /\ UNCHANGED <<loan_vars, list_vars>>

\* the data of the UpdateConfig instructions that are submitted
UpdateConfigData ==
    {[len |-> 0, fee |-> 0, authority |-> SYSTEM_ID]}
    \cup {[len |-> 2, fee |-> f, authority |-> SYSTEM_ID] : f \in {30, FEE_LIMIT}}
    \cup {[len |-> 32, fee |-> 0, authority |-> k] : k \in {"mallory", SYSTEM_ID}}
    \cup {[len |-> 1, fee |-> 0, authority |-> SYSTEM_ID]}

\* one UpdateConfig instruction: try_from, then the process function of
\* its discriminator
UpdateConfigStep(op, authority, data, flag) ==
    \E u \in {UpdateConfigTryFrom(authority, TRUE, data, config)} :
      \E r \in {IF u.err # "Ok" THEN [err |-> u.err, config |-> <<>>]
                ELSE IF op = "UpdateAuthority" THEN ProcessUpdateAuthority(u, data, config[1])
                ELSE IF op = "UpdateFee" THEN ProcessUpdateFee(u, data, config[1])
                ELSE IF op = "UpdateLockStatus" THEN ProcessUpdateLockStatus(config[1], flag)
                ELSE ProcessRemoveAuthority(config[1])} :
        /\ outcome' = Outcome(op, r.err, authority)
        /\ config' = IF r.err = "Ok" THEN <<r.config>> ELSE config
        /\ UNCHANGED <<tokens, config_bump>>
        /\ UNCHANGED <<loan_vars, list_vars>>

UpdateAuthority ==
    \E authority \in Signers, data \in {d \in UpdateConfigData : d.len # 0 /\ d.fee # 30} :
        UpdateConfigStep("UpdateAuthority", authority, data, FALSE)

UpdateFee ==
    \E authority \in Signers, data \in {d \in UpdateConfigData : d.len # 0 /\ d.authority = SYSTEM_ID} :
        UpdateConfigStep("UpdateFee", authority, data, FALSE)

UpdateLockStatus ==
    \E authority \in Signers, data \in {d \in UpdateConfigData : d.len < 2}, flag \in BOOLEAN :
        UpdateConfigStep("UpdateLockStatus", authority, data, flag)

RemoveAuthority ==
    \E authority \in Signers, data \in {d \in UpdateConfigData : d.len < 2} :
        UpdateConfigStep("RemoveAuthority", authority, data, FALSE)

\* an UpdateConfig instruction nobody signs
UpdateUnsigned ==
    \E op \in {"UpdateAuthority", "UpdateFee", "UpdateLockStatus", "RemoveAuthority"},
       data \in {d \in UpdateConfigData : d.len = 0} :
      \E u \in {UpdateConfigTryFrom("admin", FALSE, data, config)} :
        /\ outcome' = Outcome(op, u.err, "nobody")
        /\ UNCHANGED <<config, tokens, config_bump>>
        /\ UNCHANGED <<loan_vars, list_vars>>

\* the data of Deposit that are submitted
DepositData ==
    {[len |-> 32, amount |-> a, max_x |-> mx, max_y |-> 2, expiration |-> MaxClock] :
        a \in {1, 2}, mx \in {1, 2}}
    \cup {[len |-> 32, amount |-> 1, max_x |-> 1, max_y |-> 2, expiration |-> 0],
          [len |-> 32, amount |-> 0, max_x |-> 1, max_y |-> 2, expiration |-> MaxClock],
          [len |-> 32, amount |-> 1, max_x |-> 0, max_y |-> 2, expiration |-> MaxClock],
          [len |-> 32, amount |-> 1, max_x |-> 1, max_y |-> 0, expiration |-> MaxClock],
          [len |-> 31, amount |-> 1, max_x |-> 1, max_y |-> 2, expiration |-> MaxClock]}

\* the Clock sysvar as an instruction reads it
Clock == 0 .. MaxClock

\* the instructions that are submitted with given data: those data with
\* the mints in the order of the pool, signed; those of amount 1 at every
\* time of the clock; those of amount 2 unsigned and with the mints in the
\* other order
LiquidityInputs(Data) ==
    {<<data, <<"MX", "MY">>, TRUE, 0>> : data \in Data}
    \cup {<<data, <<"MX", "MY">>, TRUE, now>> :
            data \in {d \in Data : d.amount = 1 /\ d.len = 32}, now \in Clock}
    \cup {<<data, <<"MX", "MY">>, FALSE, 0>> : data \in {d \in Data : d.amount = 2 /\ d.len = 32}}
    \cup {<<data, <<"MY", "MX">>, TRUE, 0>> : data \in {d \in Data : d.amount = 2 /\ d.len = 32}}

\* the supply of mint_lp is kept within MaxSupply
Deposit ==
    \E input \in LiquidityInputs(DepositData) :
     \E data \in {input[1]}, pair \in {input[2]}, sg \in {input[3]},
        unix_timestamp \in {input[4]} :
     /\ tokens.supply + data.amount <= MaxSupply
     /\
      \E accts \in {[user_signs |-> sg, mint_x |-> pair[1], mint_y |-> pair[2]]} :
        \E d \in {DepositTryFrom(data, accts, config, tokens, unix_timestamp)} :
          \E r \in {IF d.err # "Ok" THEN [err |-> d.err, tokens |-> tokens]
                    ELSE DepositProcess(d, data, accts, tokens)} :
            /\ outcome' = Outcome("Deposit", r.err, "user")
            /\ tokens' = IF r.err = "Ok" THEN r.tokens ELSE tokens
            /\ UNCHANGED <<config, config_bump>>
            /\ UNCHANGED <<loan_vars, list_vars>>

\* an account the caller wrote, laid out as a Config account: unlocked, with
\* the mints of the instruction and the bump of the authority
ForgedConfig ==
    <<[key |-> [seed |-> 0, mint_x |-> "MX", mint_y |-> "MY", pda |-> "forged"],
       seed |-> 0, authority |-> "mallory", mint_x |-> "MX", mint_y |-> "MY",
       fee |-> 30, locked |-> FALSE,
       config_bump |-> 255, lp_bump |-> FindBump("lp"), auth_bump |-> FindBump("auth")]>>

\* the token accounts an instruction sees when it is given ForgedConfig:
\* the vaults are the associated token accounts of that account, which the
\* caller holds and keeps empty
ForgedVaults(tok) == [tok EXCEPT !.vault = [m \in Mints |-> 0]]

\* Deposit given ForgedConfig as its config account, with mint_lp and the
\* authority of the pool: what it transfers goes to the token accounts of
\* the caller, what it mints are LP tokens of the pool
DepositForgedConfig ==
    \E data \in {[len |-> 32, amount |-> 1, max_x |-> 1, max_y |-> 2, expiration |-> MaxClock]},
       unix_timestamp \in {0} :
     /\ config # <<>>
     /\ tokens.supply + data.amount <= MaxSupply
     /\
      \E accts \in {[user_signs |-> TRUE, mint_x |-> "MX", mint_y |-> "MY"]} :
        \E d \in {DepositTryFrom(data, accts, ForgedConfig, ForgedVaults(tokens), unix_timestamp)} :
          \E r \in {IF d.err # "Ok" THEN [err |-> d.err, tokens |-> tokens]
                    ELSE DepositProcess(d, data, accts, ForgedVaults(tokens))} :
            /\ outcome' = Outcome("Deposit", r.err, "user")
            /\ tokens' = IF r.err = "Ok"
                          THEN [tokens EXCEPT !.user_lp = r.tokens.user_lp,
                                              !.supply = r.tokens.supply]
                          ELSE tokens
            /\ UNCHANGED <<config, config_bump>>
            /\ UNCHANGED <<loan_vars, list_vars>>

\* the data of Withdraw that are submitted
WithdrawData ==
    {[len |-> 32, amount |-> a, min_x |-> mn, min_y |-> MaxFunds, expiration |-> MaxClock] :
        a \in {1, 2}, mn \in {1, MaxFunds}}
    \cup {[len |-> 32, amount |-> 1, min_x |-> 1, min_y |-> MaxFunds, expiration |-> 0],
          [len |-> 32, amount |-> 0, min_x |-> 1, min_y |-> MaxFunds, expiration |-> MaxClock],
          [len |-> 32, amount |-> 1, min_x |-> 0, min_y |-> MaxFunds, expiration |-> MaxClock],
          [len |-> 32, amount |-> 1, min_x |-> 1, min_y |-> 0, expiration |-> MaxClock],
          [len |-> 31, amount |-> 1, min_x |-> 1, min_y |-> MaxFunds, expiration |-> MaxClock]}

Withdraw ==
    \E input \in LiquidityInputs(WithdrawData) :
     \E data \in {input[1]}, pair \in {input[2]}, sg \in {input[3]},
        unix_timestamp \in {input[4]} :
      \E accts \in {[user_signs |-> sg, mint_x |-> pair[1], mint_y |-> pair[2]]} :
        \E d \in {WithdrawTryFrom(data, accts, config, tokens, unix_timestamp)} :
          \E r \in {IF d.err # "Ok" THEN [err |-> d.err, tokens |-> tokens]
                    ELSE WithdrawProcess(d, data, accts, config, tokens)} :
            /\ outcome' = Outcome("Withdraw", r.err, "user")
            /\ tokens' = IF r.err = "Ok" THEN r.tokens ELSE tokens
            /\ UNCHANGED <<config, config_bump>>
            /\ UNCHANGED <<loan_vars, list_vars>>

\* the data of Swap that are submitted: the 25 bytes of the layout in both
\* directions, an expired one, and two bytes
SwapData ==
    {[len |-> SWAP_DATA_LEN, is_x |-> b, amount |-> 1, min |-> mn, expiration |-> MaxClock] :
        b \in {0, 1}, mn \in {1, MaxFunds}}
    \cup {[len |-> SWAP_DATA_LEN, is_x |-> 1, amount |-> 1, min |-> 1, expiration |-> 0],
          [len |-> 2, is_x |-> 1, amount |-> 1, min |-> 1, expiration |-> MaxClock]}

\* the accounts of a Swap: user is the key that signs, vy the mint whose
\* vault is passed as vault_y
SwapAccts(sg, user, vy) ==
    [user_signs |-> sg, user |-> user, mint_x |-> "MX", mint_y |-> "MY",
     vault_x |-> Ata(ConfigKey(0, "MX", "MY"), "MX"),
     vault_y |-> Ata(ConfigKey(0, "MX", "MY"), vy)]

\* the instructions Swap that are submitted: every datum with the vault of
\* MX passed twice by a signer whose key is MX, and the two-byte datum with
\* the two vaults and by nobody
SwapInputs ==
    {<<data, SwapAccts(TRUE, "MX", "MX"), now>> : data \in SwapData, now \in {0, MaxClock}}
    \cup {<<data, SwapAccts(TRUE, "user", "MY"), 0>> : data \in {d \in SwapData : d.len = 2}}
    \cup {<<data, SwapAccts(FALSE, "MX", "MX"), 0>> : data \in {d \in SwapData : d.len = 2}}

\* Swap never gets past try_from
Swap ==
    \E input \in SwapInputs :
      \E data \in {input[1]}, accts \in {input[2]}, unix_timestamp \in {input[3]} :
        \E d \in {SwapTryFrom(data, accts, config, unix_timestamp)} :
          /\ outcome' = Outcome("Swap", d.err, "user")
          /\ UNCHANGED <<config, tokens, config_bump>>
          /\ UNCHANGED <<loan_vars, list_vars>>

\* a plain SPL Token transfer of one unit from the user into a vault: the
\* vaults are ordinary token accounts anybody may pay into
Donate ==
    \E m \in Mints :
        /\ config # <<>>
        /\ tokens.user[m] > 0
        /\ tokens' = [tokens EXCEPT !.user[m] = @ - 1, !.vault[m] = @ + 1]
        /\ outcome' = Outcome("Donate", "Ok", "user")
        /\ UNCHANGED <<config, config_bump>>
        /\ UNCHANGED <<loan_vars, list_vars>>

\* no pool exists, the user holds MaxFunds of each mint; the bump of the
\* Config address is one the derivation may return
PoolInit ==
    /\ LoanQuiet
    /\ ListQuiet
    /\ config = <<>>
    /\ tokens = [vault |-> [m \in Mints |-> 0], user |-> [m \in Mints |-> MaxFunds],
                 user_lp |-> 0, supply |-> 0]
    /\ config_bump \in {254, 255}
    /\ outcome = Outcome("none", "Ok", "nobody")

PoolNext ==
    \/ Initialize
    \/ UpdateAuthority
    \/ UpdateFee
    \/ UpdateLockStatus
    \/ RemoveAuthority
    \/ UpdateUnsigned
    \/ Deposit
    \/ DepositForgedConfig
    \/ Withdraw
    \/ Swap
    \/ Donate

SpecPool == PoolInit /\ [][PoolNext]_vars

\* ------------------------------------------------------------------------
\* Vocabulary of the properties
\* ------------------------------------------------------------------------
\* the instruction at index j of the transaction
Ix(j) == Instr[tx[j]]

\* instruction j has run and succeeded
Executed(j) == status \in {"running", "committed"} /\ j < pc

\* the fee rate and the amounts a Loan instruction carries, by the
\* documented payload layout: discriminator, bump, fee, amounts
LoanFeeOf(ix) == ix.data[3] + 256 * ix.data[4]
LoanAmountsOf(ix) == WordsOf(SubSeq(ix.data, 5, Len(ix.data)))
LoanPairsOf(ix) == PairsOf(LoanTokenAccounts(ix.accounts))
RepayPairsOf(ix) == PairsOf(RepayRest(ix.accounts))

\* a u64 below 2^30 and its value
Small(a) == a[4] < 64 /\ \A i \in 5..8 : a[i] = 0
Val(a) == a[1] + 256 * a[2] + 65536 * a[3] + 16777216 * a[4]

RECURSIVE DeltaFrom(_, _, _)
DeltaFrom(a, b, i) ==
    IF i > Len(a) THEN 0 ELSE (a[i] - b[i]) + 256 * DeltaFrom(a, b, i + 1)
\* a - b as an integer, for u64 a and b that lie close together
Delta(a, b) == DeltaFrom(a, b, 1)

RECURSIVE SumSeq(_)
SumSeq(q) == IF q = <<>> THEN 0 ELSE Head(q) + SumSeq(Tail(q))

\* the transfers instruction j made
TransfersOf(j) == SelectSeq(cpi_log, LAMBDA t : t.ix = j)

\* every account the instructions of the transaction read as the
\* instructions sysvar is the sysvar
GenuineSysvar ==
    \A j \in 1..Len(tx) :
        /\ IsLoan(Ix(j)) => AccountAt(Ix(j), 4) = "sysvar"
        /\ IsRepay(Ix(j)) => AccountAt(Ix(j), 2) = "sysvar"

HasLoan == \E j \in 1..Len(tx) : IsLoan(Ix(j))
HasRepay == \E j \in 1..Len(tx) : IsRepay(Ix(j))

\* ------------------------------------------------------------------------
\* C1: flash-loan solvency. When a transaction that contains a Loan has
\* committed, every protocol token account a Loan lent from holds at least
\* its balance before the transaction plus floor(amount * fee / 10000).
\* ------------------------------------------------------------------------
C1_Solvency ==
    status = "committed" =>
        \A k \in 1..Len(cpi_log) :
            LET t == cpi_log[k]
            IN  (IsLoan(Ix(t.ix)) /\ Small(t.amount) /\ Small(pre_amount[t.from])) =>
                    Delta(amount[t.from], pre_amount[t.from])
                        >= (Val(t.amount) * LoanFeeOf(Ix(t.ix))) \div 10000

\* ------------------------------------------------------------------------
\* C2: a transaction with a Loan and no Repay instruction of this program
\* does not commit, and once it has failed every token balance is the one
\* from before the transaction.
\* ------------------------------------------------------------------------
C2_LoanWithoutRepayFails ==
    (HasLoan /\ ~HasRepay) =>
        /\ status # "committed"
        /\ status = "failed" => amount = pre_amount

\* ------------------------------------------------------------------------
\* C3: a transaction that is a Loan immediately followed by a Repay listing
\* the same pairs in the same order, with balances that cover the loan,
\* commits, and then every borrower account holds at least the
\* expected_balance the Loan recorded for it. Stated for transactions whose
\* instructions are given the genuine instructions sysvar.
\* ------------------------------------------------------------------------
LoanThenMatchingRepay ==
    /\ Len(tx) = 2
    /\ IsLoan(Ix(1))
    /\ IsRepay(Ix(2))
    /\ LoanPairsOf(Ix(1)) = RepayPairsOf(Ix(2))
    /\ Len(LoanAmountsOf(Ix(1))) = Len(LoanPairsOf(Ix(1)))
    /\ \A i \in 1..Len(LoanPairsOf(Ix(1))) :
          /\ LoanPairsOf(Ix(1))[i][1] \in ProtocolAccts
          /\ LoanPairsOf(Ix(1))[i][2] \in BorrowerAccts
          /\ Small(LoanAmountsOf(Ix(1))[i])
          /\ ~Less(pre_amount[LoanPairsOf(Ix(1))[i][1]], LoanAmountsOf(Ix(1))[i])
          /\ ~Less(pre_amount[LoanPairsOf(Ix(1))[i][2]], U64(100))
          /\ Less(pre_amount[LoanPairsOf(Ix(1))[i][2]], U64_MAX)

C3_LoanThenRepaySucceeds ==
    (LoanThenMatchingRepay /\ GenuineSysvar /\ status \in {"committed", "failed"}) =>
        /\ status = "committed"
        /\ \A i \in 1..Len(LoanPairsOf(Ix(1))) :
              /\ i <= Len(loan_data[Ix(1).accounts[3]])
              /\ ~Less(amount[LoanPairsOf(Ix(1))[i][2]],
                       loan_data[Ix(1).accounts[3]][i].balance)

\* ------------------------------------------------------------------------
\* C4: a Repay whose pairs differ, in membership or order, from the pairs
\* of the Loan of its transaction fails (with InvalidAccountData), so it
\* never succeeds. Stated for a Loan and a Repay that are given the genuine
\* instructions sysvar.
\* ------------------------------------------------------------------------
C4_RepayOfOtherPairsFails ==
    \A j \in 1..Len(tx) : \A i \in 1..Len(tx) :
        (i < j /\ IsLoan(Ix(i)) /\ IsRepay(Ix(j))
              /\ AccountAt(Ix(i), 4) = "sysvar" /\ AccountAt(Ix(j), 2) = "sysvar"
              /\ LoanPairsOf(Ix(i)) # RepayPairsOf(Ix(j))) =>
            ~Executed(j)

\* ------------------------------------------------------------------------
\* C5: a Loan succeeds only if an instruction at a strictly later index of
\* the transaction targets this program, has the Repay discriminator as its
\* first data byte and references the loan account of the Loan; a Loan that
\* is the last instruction never succeeds.
\* ------------------------------------------------------------------------
C5_LoanNeedsLaterRepay ==
    \A j \in 1..Len(tx) :
        (IsLoan(Ix(j)) /\ Executed(j)) =>
            \E k \in (j + 1)..Len(tx) :
                /\ Ix(k).program_id = "ID"
                /\ Ix(k).data[1] = REPAY_DISCRIMINATOR
                /\ \E a \in 1..Len(Ix(k).accounts) : Ix(k).accounts[a] = Ix(j).accounts[3]

\* ------------------------------------------------------------------------
\* C6: a Loan that succeeds writes, for every pair i, an escrow entry
\* holding the protocol token account of the pair and expected_balance =
\* (borrower balance before the transfer of pair i) + floor(amount_i * fee
\* / 10000), and moves exactly amount_i from the protocol account to the
\* borrower account of the pair; amount 500 at fee 50 gives balance + 2.
\* ------------------------------------------------------------------------
\* what pairs before pair i moved into account a, net
MovedBefore(pairs, amts, a, i) ==
    SumSeq([k \in 1..(i - 1) |->
              (IF pairs[k][2] = a THEN Val(amts[k]) ELSE 0)
            - (IF pairs[k][1] = a THEN Val(amts[k]) ELSE 0)])

LoanStepAsSpecified ==
    LET ix == Ix(pc)
        pairs == LoanPairsOf(ix)
        amts == LoanAmountsOf(ix)
        entries == loan_data'[ix.accounts[3]]
    IN  /\ Len(entries) = Len(pairs)
        /\ Len(amts) = Len(pairs)
        /\ \A i \in 1..Len(pairs) :
              /\ entries[i].protocol_token_account = pairs[i][1]
              /\ Delta(entries[i].balance, amount[pairs[i][2]])
                    = MovedBefore(pairs, amts, pairs[i][2], i)
                      + (Val(amts[i]) * LoanFeeOf(ix)) \div 10000
        /\ \A a \in TokenAccts :
              Delta(amount'[a], amount[a]) = MovedBefore(pairs, amts, a, Len(pairs) + 1)
        /\ cpi_log' = cpi_log \o [i \in 1..Len(pairs) |->
                                    [ix |-> pc, from |-> pairs[i][1], to |-> pairs[i][2],
                                     amount |-> amts[i]]]

\* the amounts are below 2^30, as every amount the protocol accounts of the
\* model can cover is
SmallLoan == \A i \in 1..Len(LoanAmountsOf(Ix(pc))) : Small(LoanAmountsOf(Ix(pc))[i])

C6_LoanRecordsAndLends ==
    [][(loan_log' # loan_log /\ SmallLoan) => LoanStepAsSpecified]_vars

\* a Loan of 500 at fee 50 to a borrower holding 100 has recorded 102 and
\* moved 500
C6_Witness ==
    /\ status = "running"
    /\ pc = 2
    /\ tx[1] = "loan_500_sysvar"
    /\ pre_amount["B1"] = U64(100)
    /\ loan_data["L1"] = <<[protocol_token_account |-> "P1", balance |-> U64(102)]>>
    /\ amount["B1"] = U64(600)
    /\ amount["P1"] = U64(500)

\* ------------------------------------------------------------------------
\* C7: for each pair, a Repay that succeeds moves from the borrower account
\* to the protocol account exactly max(0, expected_balance - current
\* borrower balance), and nothing when the borrower balance is already at
\* or above expected_balance. Stated for the pairs of the Repay that have
\* an escrow entry of the Loan of the transaction and whose borrower account
\* no earlier pair names.
\* ------------------------------------------------------------------------
RepayStepAsSpecified ==
    LET pairs == RepayPairsOf(Ix(pc))
        made == SubSeq(cpi_log', Len(cpi_log) + 1, Len(cpi_log'))
    IN  \A l \in 1..(pc - 1) : \A i \in 1..Len(pairs) :
            (/\ IsLoan(Ix(l))
             /\ i <= Len(loan_data[Ix(l).accounts[3]])
             /\ loan_data[Ix(l).accounts[3]][i].protocol_token_account = pairs[i][1]
             /\ \A k \in 1..(i - 1) : pairs[k][2] # pairs[i][2]) =>
                LET expected == loan_data[Ix(l).accounts[3]][i].balance
                    current == amount[pairs[i][2]]
                    moved == SelectSeq(made, LAMBDA t : t.from = pairs[i][2] /\ t.to = pairs[i][1])
                IN  IF ~Less(current, expected) THEN moved = <<>>
                    ELSE /\ Len(moved) = 1
                         /\ moved[1].amount = SubB(expected, current, 0)

C7_RepayPaysShortfall ==
    [][(repay_log' # repay_log) => RepayStepAsSpecified]_vars

\* ------------------------------------------------------------------------
\* C8: the principal a Repay recovers for pair i is the amount_i the Loan of
\* the transaction moved for pair i, wherever the Loan stands in the
\* transaction. Stated for a Repay that is given the genuine instructions
\* sysvar.
\* ------------------------------------------------------------------------
C8_RecoveredPrincipal ==
    \A r \in 1..Len(repay_log) : \A l \in 1..Len(tx) :
        (/\ Executed(repay_log[r].index)
         /\ l < repay_log[r].index
         /\ IsLoan(Ix(l))
         /\ AccountAt(Ix(repay_log[r].index), 2) = "sysvar") =>
            \A i \in 1..Len(repay_log[r].principal) :
                /\ i <= Len(TransfersOf(l))
                /\ repay_log[r].principal[i] = TransfersOf(l)[i].amount

\* ------------------------------------------------------------------------
\* C9: no u64 step of Loan or Repay wraps: no recorded expected_balance is
\* below the balance it was computed from, and no amount a Repay moves is
\* below the principal it was computed from.
\* ------------------------------------------------------------------------
C9_NoWrappedValue ==
    /\ \A l \in 1..Len(loan_log) :
          Executed(loan_log[l].index) =>
              \A i \in 1..Len(loan_log[l].read) :
                  ~Less(loan_data[Ix(loan_log[l].index).accounts[3]][i].balance,
                        loan_log[l].read[i])
    /\ \A r \in 1..Len(repay_log) :
          Executed(repay_log[r].index) =>
              \A i \in 1..Len(repay_log[r].principal) :
                  ~Less(TransfersOf(repay_log[r].index)[i].amount, repay_log[r].principal[i])

\* ------------------------------------------------------------------------
\* C10: a Loan that carries more than MAX_LOAN_PAIRS pairs is rejected by
\* the Loan instruction itself: it never succeeds, and no loan account ever
\* holds more than MAX_LOAN_PAIRS entries.
\* ------------------------------------------------------------------------
C10_LoanBoundsPairs ==
    /\ \A j \in 1..Len(tx) :
          (IsLoan(Ix(j)) /\ Len(LoanPairsOf(Ix(j))) > MAX_LOAN_PAIRS) => ~Executed(j)
    /\ \A l \in LoanAccts : Len(loan_data[l]) <= MAX_LOAN_PAIRS

\* ------------------------------------------------------------------------
\* C12: a loan escrow record does not outlive its transaction: once a
\* transaction has committed, no loan account holds entries a Loan wrote.
\* Stated for the transactions in which a Repay succeeded after every Loan.
\* ------------------------------------------------------------------------
RepaidAfterEveryLoan ==
    \A i \in 1..Len(tx) :
        IsLoan(Ix(i)) => \E j \in (i + 1)..Len(tx) : IsRepay(Ix(j)) /\ Executed(j)

C12_EscrowDoesNotOutlive ==
    (status = "committed" /\ HasLoan /\ RepaidAfterEveryLoan) =>
        \A l \in LoanAccts : loan_data[l] = <<>>

\* ------------------------------------------------------------------------
\* C13: a Repay that no Loan of this program precedes in its transaction
\* fails: no transaction commits in which a Repay stands before or without
\* a Loan.
\* ------------------------------------------------------------------------
C13_RepayNeedsEarlierLoan ==
    status = "committed" =>
        \A j \in 1..Len(tx) :
            IsRepay(Ix(j)) => \E i \in 1..(j - 1) : IsLoan(Ix(i))

\* ------------------------------------------------------------------------
\* C14: Loan issues no transfer before its check for the Repay has passed:
\* whenever a Loan is about to run on an instruction list that its check for
\* the Repay rejects, the run issues no transfer.
\* ------------------------------------------------------------------------
C14_CheckBeforeFundsMove ==
    (status = "running" /\ pc <= Len(tx) /\ IsLoan(Ix(pc))) =>
        \A content \in SysvarContents(AccountAt(Ix(pc), 4), TxContent(tx),
                                      ForgedLists[forged], ForgedSet, loan_data) :
            RepayIntrospection(content, Ix(pc).accounts[3]) # "Ok" =>
                LoanProcess(Ix(pc), amount, loan_data, content).log = <<>>

\* ------------------------------------------------------------------------
\* C11: Loan fails with InvalidAccountData, before any transfer, on every
\* token-account list that is empty, of odd length, or names one protocol
\* token account in two pairs i < j; every list of whole pairs with pairwise
\* distinct protocol accounts passes the check of the accounts.
\* ------------------------------------------------------------------------
RepeatsProtocolAccount(toks) ==
    \E i \in 1..(Len(toks) \div 2) : \E j \in 1..(Len(toks) \div 2) :
        i < j /\ toks[2 * i - 1] = toks[2 * j - 1]

C11_LoanChecksTokenAccounts ==
    checked # <<>> =>
        IF \/ Len(token_accounts) = 0
           \/ Len(token_accounts) % 2 # 0
           \/ RepeatsProtocolAccount(token_accounts)
        THEN /\ checked[1].err = "InvalidAccountData"
             /\ checked[1].log = <<>>
             /\ checked[1].bal = amount
        ELSE /\ checked[1].err # "InvalidAccountData"
             /\ LoanAccountsTryFrom(ListLoan(token_accounts).accounts, loan_data) = "Ok"

\* the first and the third pair name P1: the Loan was refused
C11_Witness ==
    /\ checked # <<>>
    /\ token_accounts = <<"P1", "B1", "P2", "B1", "P1", "B1">>
    /\ checked[1].err = "InvalidAccountData"
    /\ checked[1].log = <<>>

\* three pairs with distinct protocol accounts: the Loan ran
C11_WitnessDistinct ==
    /\ checked # <<>>
    /\ token_accounts = <<"P1", "B1", "P2", "B1", "P3", "B1">>
    /\ checked[1].err = "Ok"
    /\ Len(checked[1].log) = 3

\* ------------------------------------------------------------------------
\* C15: while the Config account is locked, every Deposit, Withdraw and
\* Swap fails and leaves the vault balances, the user balances and the
\* supply of mint_lp as they were.
\* ------------------------------------------------------------------------
C15_LockedPoolRejects ==
    [][(/\ config # <<>>
        /\ config[1].locked
        /\ outcome'.op \in {"Deposit", "Withdraw", "Swap"})
       => (outcome'.err # "Ok" /\ tokens' = tokens)]_vars

\* a funded, locked pool has refused a Deposit for its lock
C15_Witness ==
    /\ config # <<>>
    /\ config[1].locked
    /\ tokens.supply > 0
    /\ outcome.op = "Deposit"
    /\ outcome.err = "UninitializedAccount"

\* the four operations of UpdateConfig
UpdateConfigOps == {"UpdateAuthority", "UpdateFee", "UpdateLockStatus", "RemoveAuthority"}

\* ------------------------------------------------------------------------
\* C16: immutability is permanent: once the authority of the Config account
\* is the system program, no step of any caller changes its fee, its
\* authority or its lock flag.
\* ------------------------------------------------------------------------
C16_ImmutabilityIsPermanent ==
    [][(config # <<>> /\ config[1].authority = SYSTEM_ID)
       => /\ config' # <<>>
          /\ config'[1].fee = config[1].fee
          /\ config'[1].authority = config[1].authority
          /\ config'[1].locked = config[1].locked]_vars

\* the pool is immutable and an UpdateConfig operation of admin was refused
C16_Witness ==
    /\ config # <<>>
    /\ config[1].authority = SYSTEM_ID
    /\ outcome.op \in UpdateConfigOps
    /\ outcome.signer = "admin"
    /\ outcome.err = "Custom1"

\* ------------------------------------------------------------------------
\* C17: every UpdateConfig operation submitted by a signer other than the
\* authority of the Config account fails and leaves every field of the
\* Config account unchanged.
\* ------------------------------------------------------------------------
C17_WrongSignerRejected ==
    [][(/\ config # <<>>
        /\ outcome'.op \in UpdateConfigOps
        /\ outcome'.signer # config[1].authority)
       => (outcome'.err # "Ok" /\ config' = config)]_vars

\* admin is the authority and an update of the fee signed by mallory was
\* refused
C17_Witness ==
    /\ config # <<>>
    /\ config[1].authority = "admin"
    /\ outcome.op = "UpdateFee"
    /\ outcome.signer = "mallory"
    /\ outcome.err = "Custom1"

\* ------------------------------------------------------------------------
\* C18: the fee of an initialized pool is below 10000 in every reachable
\* state.
\* ------------------------------------------------------------------------
C18_FeeBelowLimit ==
    config # <<>> => config[1].fee < FEE_LIMIT

\* ------------------------------------------------------------------------
\* C19: every initialized pool has mint_x different from mint_y: an
\* Initialize with the same mint twice is rejected and creates no Config
\* account.
\* ------------------------------------------------------------------------
C19_MintsDistinct ==
    config # <<>> => config[1].mint_x # config[1].mint_y

\* an Initialize with the same mint twice was refused at the second vault
\* and no pool exists
C19_Witness ==
    /\ config = <<>>
    /\ outcome.op = "Initialize"
    /\ outcome.err = "IllegalOwner"

\* ------------------------------------------------------------------------
\* C20: whenever the supply of mint_lp is 0, a valid unexpired Deposit
\* (amount, max_x, max_y) on an unlocked pool succeeds, moves exactly max_x
\* and max_y from the user to the vaults and mints exactly amount, whatever
\* the vaults hold.
\* ------------------------------------------------------------------------
\* a Deposit the data checks accept at the time now and the user can pay
ValidDeposit(data, now) ==
    /\ data.len = 32
    /\ data.amount > 0
    /\ data.max_x > 0
    /\ data.max_y > 0
    /\ data.expiration >= now
    /\ data.max_x <= tokens.user[config[1].mint_x]
    /\ data.max_y <= tokens.user[config[1].mint_y]

\* the Deposit of data at the time now takes the maxima and mints amount
FirstDepositAsSpecified(data, now) ==
    LET accts == [user_signs |-> TRUE, mint_x |-> config[1].mint_x,
                  mint_y |-> config[1].mint_y]
        d == DepositTryFrom(data, accts, config, tokens, now)
        r == DepositProcess(d, data, accts, tokens)
    IN  /\ d.err = "Ok"
        /\ d.x = data.max_x
        /\ d.y = data.max_y
        /\ r.err = "Ok"
        /\ r.tokens.vault[accts.mint_x] = tokens.vault[accts.mint_x] + data.max_x
        /\ r.tokens.vault[accts.mint_y] = tokens.vault[accts.mint_y] + data.max_y
        /\ r.tokens.user[accts.mint_x] = tokens.user[accts.mint_x] - data.max_x
        /\ r.tokens.user[accts.mint_y] = tokens.user[accts.mint_y] - data.max_y
        /\ r.tokens.supply = data.amount

C20_FirstDepositWhateverVaults ==
    (config # <<>> /\ ~config[1].locked /\ tokens.supply = 0) =>
        \A data \in DepositData, now \in Clock :
            ValidDeposit(data, now) => FirstDepositAsSpecified(data, now)

\* the accounts of a Deposit or Withdraw the user signs, with the mints of
\* the pool
SignedAccts ==
    [user_signs |-> TRUE, mint_x |-> config[1].mint_x, mint_y |-> config[1].mint_y]

\* ------------------------------------------------------------------------
\* C21: a Withdraw whose amount is the whole supply of mint_lp transfers
\* exactly the full balances of both vaults to the user, burns the whole
\* supply and leaves both vaults at 0.
\* ------------------------------------------------------------------------
\* the Withdraw of data at the time now, if it goes through, empties the pool
FullWithdrawAsSpecified(data, now) ==
    LET accts == SignedAccts
        d == WithdrawTryFrom(data, accts, config, tokens, now)
        r == WithdrawProcess(d, data, accts, config, tokens)
    IN  d.err = "Ok" =>
          /\ d.x = tokens.vault[accts.mint_x]
          /\ d.y = tokens.vault[accts.mint_y]
          /\ r.err = "Ok" =>
               /\ r.tokens.vault = [m \in Mints |-> 0]
               /\ r.tokens.user = [m \in Mints |-> tokens.user[m] + tokens.vault[m]]
               /\ r.tokens.supply = 0
               /\ r.tokens.user_lp = tokens.user_lp - data.amount

C21_FullWithdrawEmptiesPool ==
    (config # <<>> /\ tokens.supply > 0) =>
        \A data \in WithdrawData, now \in Clock :
            data.amount = tokens.supply => FullWithdrawAsSpecified(data, now)

\* a Withdraw went through and left no supply: the vaults are empty and the
\* user holds every token again
C21_Witness ==
    /\ config # <<>>
    /\ outcome.op = "Withdraw"
    /\ outcome.err = "Ok"
    /\ tokens.supply = 0
    /\ tokens.vault = [m \in Mints |-> 0]
    /\ tokens.user = [m \in Mints |-> MaxFunds]

\* ------------------------------------------------------------------------
\* C22: a successful Deposit never takes more than max_x of X or more than
\* max_y of Y from the user; a Deposit whose resolved x exceeds max_x or
\* whose resolved y exceeds max_y fails with no balance changed: it is
\* refused in try_from, before the transfers of process.
\* ------------------------------------------------------------------------
\* the pool has neither supply nor reserves
EmptyPool ==
    /\ tokens.supply = 0
    /\ tokens.vault[config[1].mint_x] = 0
    /\ tokens.vault[config[1].mint_y] = 0

\* the amounts a Deposit of data resolves to: the maxima into an empty pool,
\* the share of the reserves otherwise
ResolvedDeposit(data) ==
    IF EmptyPool THEN [err |-> "Ok", x |-> data.max_x, y |-> data.max_y]
    ELSE XyDepositAmountsFromL(tokens.vault[config[1].mint_x], tokens.vault[config[1].mint_y],
                               tokens.supply, data.amount, CURVE_PRECISION)

\* the resolved amounts of data exist and one of them is above its maximum
ExceedsMax(data) ==
    /\ ResolvedDeposit(data).err = "Ok"
    /\ \/ ResolvedDeposit(data).x > data.max_x
       \/ ResolvedDeposit(data).y > data.max_y

DepositWithinMax(data, now) ==
    \A accts \in {SignedAccts} :
      \A d \in {DepositTryFrom(data, accts, config, tokens, now)} :
        /\ ExceedsMax(data) => d.err # "Ok"
        /\ d.err = "Ok" =>
             /\ d.x <= data.max_x
             /\ d.y <= data.max_y
             /\ \A r \in {DepositProcess(d, data, accts, tokens)} :
                  r.err = "Ok" =>
                    /\ tokens.user[accts.mint_x] - r.tokens.user[accts.mint_x] = d.x
                    /\ tokens.user[accts.mint_y] - r.tokens.user[accts.mint_y] = d.y

C22_DepositWithinMax ==
    config # <<>> =>
        \A data \in DepositData, now \in Clock : DepositWithinMax(data, now)

\* a pool with reserves has refused a Deposit, and one of the payloads
\* resolves above its maximum there
C22_Witness ==
    /\ config # <<>>
    /\ tokens.supply > 0
    /\ outcome.op = "Deposit"
    /\ outcome.err = "InvalidArgument"
    /\ \E data \in DepositData :
         /\ data.len = 32 /\ data.amount > 0 /\ data.max_x > 0 /\ data.max_y > 0
         /\ ExceedsMax(data)

\* ------------------------------------------------------------------------
\* C23: min_x and min_y are the least amounts the user is willing to
\* receive: every successful Withdraw transfers to the user at least min_x
\* of X and at least min_y of Y.
\* ------------------------------------------------------------------------
\* the Withdraw of data at the time now, if it goes through, pays the minima
WithdrawPaysMinima(data, now) ==
    LET accts == SignedAccts
        d == WithdrawTryFrom(data, accts, config, tokens, now)
        r == WithdrawProcess(d, data, accts, config, tokens)
    IN  (d.err = "Ok" /\ r.err = "Ok") =>
          /\ r.tokens.user[accts.mint_x] - tokens.user[accts.mint_x] >= data.min_x
          /\ r.tokens.user[accts.mint_y] - tokens.user[accts.mint_y] >= data.min_y

C23_WithdrawPaysMinima ==
    config # <<>> =>
        \A data \in WithdrawData, now \in Clock : WithdrawPaysMinima(data, now)

\* ------------------------------------------------------------------------
\* C27: the decoding of Swap accepts the data laid out as is_x: u8,
\* amount: u64, min: u64, expiration: i64 (25 bytes) with is_x 0 or 1,
\* amount > 0, min > 0 and an expiration not in the past, and rejects the
\* data of any other length, so that a Swap can go through on an unlocked
\* pool that holds reserves.
\* ------------------------------------------------------------------------
\* the data the layout of Swap allows at the time now
SwapDataOfLayout(data, now) ==
    /\ data.len = SWAP_DATA_LEN
    /\ data.is_x \in {0, 1}
    /\ data.amount > 0
    /\ data.min > 0
    /\ data.expiration >= now

\* an unlocked pool with reserves of both tokens
UnlockedFundedPool ==
    /\ config # <<>>
    /\ ~is_locked(config[1])
    /\ \A m \in Mints : tokens.vault[m] > 0

C27_SwapDecodesLayout ==
    UnlockedFundedPool =>
        \A data \in SwapData, now \in Clock :
            (SwapInstructionDataTryFrom(data, now) = "Ok") <=> SwapDataOfLayout(data, now)

\* ------------------------------------------------------------------------
\* C28: Deposit, Withdraw and Swap fail without any change of state when
\* the expiration of the data is strictly less than the time of the chain,
\* and are not rejected because of the expiration when it is equal to or
\* greater than that time.
\* ------------------------------------------------------------------------
\* the same data with an expiration no time of the clock is past
NotExpired(data) == [data EXCEPT !.expiration = MaxClock]

\* at every time of the clock, the data whose expiration is past are
\* refused, and the others get the answer the same data get with a later
\* expiration
ExpirationDecides ==
    \A now \in Clock :
        /\ \A data \in DepositData :
             IF data.expiration < now
             THEN DepositTryFrom(data, SignedAccts, config, tokens, now).err # "Ok"
             ELSE \/ data = NotExpired(data)
                  \/ DepositTryFrom(data, SignedAccts, config, tokens, now)
                       = DepositTryFrom(NotExpired(data), SignedAccts, config, tokens, now)
        /\ \A data \in WithdrawData :
             IF data.expiration < now
             THEN WithdrawTryFrom(data, SignedAccts, config, tokens, now).err # "Ok"
             ELSE \/ data = NotExpired(data)
                  \/ WithdrawTryFrom(data, SignedAccts, config, tokens, now)
                       = WithdrawTryFrom(NotExpired(data), SignedAccts, config, tokens, now)
        /\ \A data \in SwapData :
             IF data.expiration < now
             THEN SwapTryFrom(data, SwapAccts(TRUE, "MX", "MX"), config, now).err # "Ok"
             ELSE \/ data = NotExpired(data)
                  \/ SwapTryFrom(data, SwapAccts(TRUE, "MX", "MX"), config, now)
                       = SwapTryFrom(NotExpired(data), SwapAccts(TRUE, "MX", "MX"), config, now)

\* an instruction of the three that fails leaves the pool as it was
RefusedLeavesPool ==
    (outcome'.op \in {"Deposit", "Withdraw", "Swap"} /\ outcome'.err # "Ok")
        => UNCHANGED <<config, tokens, config_bump>>

C28_ExpirationRule ==
    /\ [](config # <<>> => ExpirationDecides)
    /\ [][RefusedLeavesPool]_vars

\* a Deposit has been refused for its data on a pool where one of the
\* payloads is past at some time and would go through with a later
\* expiration
C28_Witness ==
    /\ config # <<>>
    /\ outcome.op = "Deposit"
    /\ outcome.err = "InvalidInstructionData"
    /\ \E data \in DepositData, now \in Clock :
         /\ data.expiration < now
         /\ DepositTryFrom(NotExpired(data), SignedAccts, config, tokens, now).err = "Ok"

\* ------------------------------------------------------------------------
\* C29: a Loan is accepted whenever some instruction at a later index of
\* the transaction targets this program, carries the Repay discriminator
\* and references the same loan account, whatever instructions follow that
\* Repay: the Repay need not be the final instruction of the transaction.
\* Stated for the check Loan makes on the instructions sysvar.
\* ------------------------------------------------------------------------
\* an instruction of this program with the Repay discriminator whose
\* account 1 is the loan account
RepayOf(instruction, loan_key) ==
    /\ instruction.program_id = "ID"
    /\ instruction.data[1] = REPAY_DISCRIMINATOR
    /\ instruction.accounts[2] = loan_key

\* a Loan reading the instructions sysvar is about to run
LoanOnSysvarAtPc ==
    /\ status = "running"
    /\ pc <= Len(tx)
    /\ IsLoan(Ix(pc))
    /\ AccountAt(Ix(pc), 4) = "sysvar"

LoansOf(txn) == {j \in 1..Len(txn) : IsLoan(Instr[txn[j]])}

C30_OneLoanPerTransaction ==
    status = "committed" => Cardinality(LoansOf(tx)) <= 1

\* ------------------------------------------------------------------------
\* C31: the fee charged at repayment uses the rate the Loan was issued
\* with: for every pair, the fee Repay computes is floor(amount * fee /
\* 10000) for the fee parameter of the Loan that precedes it in the
\* transaction, whatever fee the Loan carries.
\* ------------------------------------------------------------------------
C31_RepayFeeAtLoanRate ==
    \A r \in 1..Len(repay_log) : \A l \in 1..Len(tx) :
        (/\ Executed(repay_log[r].index)
         /\ l < repay_log[r].index
         /\ IsLoan(Ix(l))) =>
            \A i \in 1..Len(repay_log[r].fees) :
                repay_log[r].fees[i]
                    = RepayFee(repay_log[r].principal[i], LoanFeeOf(Ix(l))).val

\* ------------------------------------------------------------------------
\* C32: tokens are conserved: every Deposit, Withdraw and Swap that goes
\* through changes the balance of the vault and the balance of the user of
\* each token by the resolved amounts in opposite directions, so that user
\* + vault is unchanged for each token; Deposit raises the supply of
\* mint_lp by amount, Withdraw lowers it by amount, Swap leaves it.
\* ------------------------------------------------------------------------
\* from tok to res, the vaults gained dx, dy and the user lost them, and
\* the supply and the LP balance of the user gained dl
Moved(tok, res, dx, dy, dl) ==
    /\ res.vault[config[1].mint_x] = tok.vault[config[1].mint_x] + dx
    /\ res.user[config[1].mint_x] = tok.user[config[1].mint_x] - dx
    /\ res.vault[config[1].mint_y] = tok.vault[config[1].mint_y] + dy
    /\ res.user[config[1].mint_y] = tok.user[config[1].mint_y] - dy
    /\ res.supply = tok.supply + dl
    /\ res.user_lp = tok.user_lp + dl

DepositConserves(data, now) ==
    LET d == DepositTryFrom(data, SignedAccts, config, tokens, now)
        r == DepositProcess(d, data, SignedAccts, tokens)
    IN  (d.err = "Ok" /\ r.err = "Ok") => Moved(tokens, r.tokens, d.x, d.y, data.amount)

WithdrawConserves(data, now) ==
    LET d == WithdrawTryFrom(data, SignedAccts, config, tokens, now)
        r == WithdrawProcess(d, data, SignedAccts, config, tokens)
    IN  (d.err = "Ok" /\ r.err = "Ok") => Moved(tokens, r.tokens, 0 - d.x, 0 - d.y, 0 - data.amount)

SwapConserves(swap_result, is_x) ==
    LET d == SwapChecks(swap_result, SignedAccts, config)
        r == SwapProcess(d, is_x, SignedAccts, tokens)
    IN  (d.err = "Ok" /\ r.err = "Ok") =>
            IF is_x THEN Moved(tokens, r.tokens, d.deposit, 0 - d.withdraw, 0)
            ELSE Moved(tokens, r.tokens, 0 - d.withdraw, d.deposit, 0)

C32_TokensConserved ==
    config # <<>> =>
        /\ \A data \in DepositData, now \in Clock : DepositConserves(data, now)
        /\ \A data \in WithdrawData, now \in Clock : WithdrawConserves(data, now)
        /\ \A swap_result \in SwapResults, is_x \in BOOLEAN : SwapConserves(swap_result, is_x)

\* a Withdraw has gone through on a pool that still has reserves, where a
\* Swap with both legs above 0 would move tokens
C32_Witness ==
    /\ config # <<>>
    /\ outcome.op = "Withdraw"
    /\ outcome.err = "Ok"
    /\ tokens.supply > 0
    /\ \E swap_result \in SwapResults, is_x \in BOOLEAN :
         LET d == SwapChecks(swap_result, SignedAccts, config)
         IN  d.err = "Ok" /\ SwapProcess(d, is_x, SignedAccts, tokens).err = "Ok"

\* ------------------------------------------------------------------------
\* C33: rounding never leaks value out of the pool: with a supply above 0,
\* a Deposit of L LP tokens takes at least ceil(reserve * L / supply) of
\* each token and a Withdraw of L pays at most floor(reserve * L / supply)
\* of each token, so that a Deposit of L followed at once by a Withdraw of
\* L returns to the user no more of either token than was deposited.
\* ------------------------------------------------------------------------
CeilShare(reserve, l, supply) == (reserve * l + supply - 1) \div supply

FloorShare(reserve, l, supply) == (reserve * l) \div supply

DepositRoundsUp(data, now) ==
    LET d == DepositTryFrom(data, SignedAccts, config, tokens, now)
    IN  d.err = "Ok" =>
          /\ d.x >= CeilShare(tokens.vault[config[1].mint_x], data.amount, tokens.supply)
          /\ d.y >= CeilShare(tokens.vault[config[1].mint_y], data.amount, tokens.supply)

WithdrawRoundsDown(data, now) ==
    LET d == WithdrawTryFrom(data, SignedAccts, config, tokens, now)
    IN  d.err = "Ok" =>
          /\ d.x <= FloorShare(tokens.vault[config[1].mint_x], data.amount, tokens.supply)
          /\ d.y <= FloorShare(tokens.vault[config[1].mint_y], data.amount, tokens.supply)

C33_RoundingFavoursPool ==
    (config # <<>> /\ tokens.supply > 0) =>
        /\ \A data \in DepositData, now \in Clock : DepositRoundsUp(data, now)
        /\ \A data \in WithdrawData, now \in Clock : WithdrawRoundsDown(data, now)

\* ------------------------------------------------------------------------
\* C34: Deposit, Withdraw and Swap each reject, before any transfer, a
\* config account whose address is not the one derived again from the
\* stored seed, mints and config bump, and an authority or mint_lp account
\* whose address is not its derived address. Stated for the config account.
\* ------------------------------------------------------------------------
C34_ConfigAddressRederived ==
    config # <<>> =>
        /\ \A data \in DepositData, now \in Clock :
              DepositTryFrom(data, SignedAccts, ForgedConfig, ForgedVaults(tokens), now).err # "Ok"
        /\ \A data \in WithdrawData, now \in Clock :
              WithdrawTryFrom(data, SignedAccts, ForgedConfig, ForgedVaults(tokens), now).err # "Ok"
        /\ \A swap_result \in SwapResults :
              SwapChecks(swap_result, SignedAccts, ForgedConfig).err # "Ok"

\* ------------------------------------------------------------------------
\* C35: the bump Withdraw appends to its "config" seeds is the stored
\* config_bump, so the address it signs the vault transfers with is the key
\* of the Config account, also for a pool whose config_bump and auth_bump
\* differ.
\* ------------------------------------------------------------------------
C35_WithdrawSignsAsConfig ==
    config # <<>> =>
        /\ WithdrawBump(config) = config[1].config_bump
        /\ SignedAddress(config[1].seed, config[1].mint_x, config[1].mint_y,
                         WithdrawBump(config)) = config[1].key

\* the fields of a Config account other than f are the same in c and d
SameBut(f, c, d) ==
    \A g \in (DOMAIN c) \ {f} : c[g] = d[g]

\* ------------------------------------------------------------------------
\* C36: each successful operation of UpdateConfig writes exactly one field
\* of the Config account: UpdateFee only fee, UpdateAuthority and
\* RemoveAuthority only authority, UpdateLockStatus only locked; and no
\* operation after Initialize changes seed, mint_x, mint_y or the three
\* bumps.
\* ------------------------------------------------------------------------
C36_UpdateWritesOneField ==
    [][config # <<>> =>
        /\ config' # <<>>
        /\ DOMAIN config'[1] = DOMAIN config[1]
        /\ \A g \in {"key", "seed", "mint_x", "mint_y", "config_bump", "lp_bump", "auth_bump"} :
              config'[1][g] = config[1][g]
        /\ (outcome'.op = "UpdateFee" /\ outcome'.err = "Ok")
              => SameBut("fee", config[1], config'[1])
        /\ (outcome'.op \in {"UpdateAuthority", "RemoveAuthority"} /\ outcome'.err = "Ok")
              => SameBut("authority", config[1], config'[1])
        /\ (outcome'.op = "UpdateLockStatus" /\ outcome'.err = "Ok")
              => SameBut("locked", config[1], config'[1])
        /\ (outcome'.op \notin UpdateConfigOps \/ outcome'.err # "Ok")
              => config' = config]_vars

\* a locked pool whose fee a successful UpdateFee has changed from the one
\* Initialize stored
C36_Witness ==
    /\ config # <<>>
    /\ outcome.op = "UpdateFee"
    /\ outcome.err = "Ok"
    /\ config[1].locked
    /\ config[1].fee # 30

\* the results of the curve with a leg of 0
ZeroLeg(swap_result) ==
    swap_result.err = "Ok" /\ (swap_result.deposit = 0 \/ swap_result.withdraw = 0)

\* ------------------------------------------------------------------------
\* C37: a Swap whose resolved input leg or output leg is 0 fails and moves
\* no tokens: Swap::try_from returns an error for every such result of the
\* curve, so that Swap::process and its transfers never run, and no step of
\* Swap that fails changes a balance.
\* ------------------------------------------------------------------------
C37_ZeroLegSwapFails ==
    /\ [](config # <<>> =>
            \A swap_result \in SwapResults :
                ZeroLeg(swap_result) => SwapChecks(swap_result, SignedAccts, config).err # "Ok")
    /\ [][(outcome'.op = "Swap" /\ outcome'.err # "Ok") => tokens' = tokens]_vars

\* an unlocked pool with reserves has refused a Swap, and a result of the
\* curve that pays 0 for 1 is refused there for its leg
C37_Witness ==
    /\ UnlockedFundedPool
    /\ outcome.op = "Swap"
    /\ outcome.err # "Ok"
    /\ SwapChecks([err |-> "Ok", deposit |-> 0, withdraw |-> 1], SignedAccts, config).err
         = "InvalidArgument"
    /\ SwapChecks([err |-> "Ok", deposit |-> 1, withdraw |-> 1], SignedAccts, config).err = "Ok"

\* the amounts Withdraw resolves from the vaults and the supply of mint_lp
ResolvedWithdraw(data) ==
    IF tokens.supply = data.amount
    THEN [x |-> tokens.vault[config[1].mint_x], y |-> tokens.vault[config[1].mint_y]]
    ELSE XyWithdrawAmountsFromL(tokens.vault[config[1].mint_x], tokens.vault[config[1].mint_y],
                                tokens.supply, data.amount, CURVE_PRECISION)

\* the Withdraw gets as far as the comparison with the minima: its accounts
\* and data are accepted, the pool is not locked and the amounts resolve
ReachesMinima(data, now) ==
    /\ WithdrawAccountsTryFrom(SignedAccts, config) = "Ok"
    /\ WithdrawInstructionDataTryFrom(data, now) = "Ok"
    /\ ~is_locked(config[1])
    /\ tokens.supply = data.amount \/ ResolvedWithdraw(data).err = "Ok"

\* among such Withdraws, the refused ones are those with an amount above
\* its minimum
MinimaDecide(data, now) ==
    LET r == ResolvedWithdraw(data)
        d == WithdrawTryFrom(data, SignedAccts, config, tokens, now)
    IN  ReachesMinima(data, now) =>
          /\ (d.err # "Ok") <=> (r.x > data.min_x \/ r.y > data.min_y)
          /\ d.err # "Ok" => d.err = "InvalidArgument"
          /\ d.err = "Ok" => (d.x = r.x /\ d.y = r.y)

FullWithdrawData ==
    [len |-> 32, amount |-> tokens.supply,
     min_x |-> tokens.vault[config[1].mint_x], min_y |-> tokens.vault[config[1].mint_y],
     expiration |-> MaxClock]

\* a Deposit has funded the pool and the user holds the whole supply
FundedByDeposit ==
    /\ UnlockedFundedPool
    /\ outcome.op = "Deposit"
    /\ outcome.err = "Ok"
    /\ tokens.supply > 0
    /\ tokens.user_lp = tokens.supply

\* the Deposits whose data are accepted and whose maxima the user holds
AffordableDeposit(data, tok, now) ==
    /\ DepositInstructionDataTryFrom(data, now) = "Ok"
    /\ tok.user[config[1].mint_x] >= data.max_x
    /\ tok.user[config[1].mint_y] >= data.max_y

\* the Deposit of data into the pool with the balances tok is a first
\* deposit: it takes the maxima and mints the amount
FirstDeposit(data, tok, now) ==
    LET d == DepositTryFrom(data, SignedAccts, config, tok, now)
        r == DepositProcess(d, data, SignedAccts, tok)
    IN  /\ d.err = "Ok"
        /\ d.x = data.max_x
        /\ d.y = data.max_y
        /\ r.err = "Ok"
        /\ r.tokens.supply = data.amount
        /\ r.tokens.vault[config[1].mint_x] = data.max_x
        /\ r.tokens.vault[config[1].mint_y] = data.max_y

\* ------------------------------------------------------------------------
\* C39: after a Deposit, the Withdraw of the whole supply succeeds and
\* brings the supply of mint_lp and both vaults to 0, and the next Deposit
\* is then a first deposit that takes exactly max_x and max_y and mints
\* amount: the sequence Deposit, full Withdraw, Deposit always succeeds for
\* valid inputs.
\* ------------------------------------------------------------------------
C39_RebootstrapSucceeds ==
    FundedByDeposit =>
        \A now \in Clock :
            LET w == WithdrawTryFrom(FullWithdrawData, SignedAccts, config, tokens, now)
                r == WithdrawProcess(w, FullWithdrawData, SignedAccts, config, tokens)
            IN  /\ w.err = "Ok"
                /\ r.err = "Ok"
                /\ r.tokens.supply = 0
                /\ \A m \in Mints : r.tokens.vault[m] = 0
                /\ \A data \in DepositData :
                      AffordableDeposit(data, r.tokens, now) => FirstDeposit(data, r.tokens, now)

====
